---- MODULE Spec2Model ----
(***************************************************************************)
(* MAPLE n8n integration: the MAPLE Agent node, the Resource Manager node, *)
(* the Coordinator node, the fallback HTTP bridge and demo WebSocket       *)
(* server they talk to, and the ExecuteTask transaction declared in the    *)
(* TaskExecution protocol.                                                 *)
(*                                                                         *)
(* Each component has its own variables and its own specification          *)
(* (SpecAgent, SpecRes, SpecCoord, SpecTx); a specification keeps the      *)
(* variables of the other components at their idle values.                 *)
(***************************************************************************)
EXTENDS Integers, Sequences, FiniteSets, TLC

VARIABLES
    \* ---- MAPLE Agent node, execute() (launch.js 1578-1790)
    aCfg,        \* node parameters and n8n settings of this run
    aPc,         \* "start" | "loop" | "done" | "threw"
    aItem,       \* i of the for loop (1-based)
    attempts,    \* the attempts counter of the current item
    aLog,        \* per item: the outcomes of the attempts made, in order
    aWaits,      \* per item: the backoff delays waited, in order (ms)
    returnData,  \* the output entries pushed so far
    aConnected,  \* the client holds an open connection
    aErrs,       \* per item: the error messages of the failed attempts
    aError,      \* the message of the error execute() threw, or "none"
    \* ---- Resource Manager node, execute() (launch.js 906-1003), and the
    \* ---- allocations the bridge has answered (start-maple-broker.js 360-385)
    rCfg,        \* node parameters and n8n settings of this run
    rPc,         \* "idle" | "start" | "loop" | "done" | "threw"
    rItem,       \* i of the for loop (1-based)
    rRuns,       \* executions of the node started so far
    rOut,        \* returnData: the success flag of each entry pushed
    rConnected,  \* the client holds an open connection
    rAllocs,     \* the allocations answered 'allocated', in order; id = index
    rBase,       \* the number of allocations there were when this execution
                 \* of the node began
    rReleased,   \* ids for which releaseResources returned status 'released'
    rExpired,    \* ids whose availableUntil has passed
    rLast,       \* the last operation call: what was asked, what came back
    rNeg,        \* for the strict and the flexible flexibility: how the
                 \* requestNegotiation calls made since the pool state last
                 \* changed have ended
    \* ---- Coordinator node, execute() (part_006 348-447), and the workflow
    \* ---- endpoints of the fallback bridge (start-maple-broker.js 419-478)
    cCfg,        \* node parameters and n8n settings of this run
    cPc,         \* "idle" | "start" | "loop" | "done" | "threw"
    cItem,       \* i of the for loop (1-based)
    cRuns,       \* executions of the node started so far
    cOut,        \* returnData: the success flag of each entry pushed
    cConnected,  \* the client holds an open connection
    cStep,       \* 0: the item's operation has not started; k: the agent
                 \* loop of the operation is at the k-th declared agent
    cInflight,   \* an executeTask call is awaited
    cRun,        \* per item: tasks dispatched, their results, compensation
                 \* actions run, outcome of the operation; for a fan-out
                 \* the state of each agent's promise (tasks) and the
                 \* summary of the result (<<>> when it has none)
    wfSteps,     \* the workflows the bridge answered 'created': steps declared
    wfLast,      \* the last answer of POST /workflows/:workflowId/execute
    \* ---- the ExecuteTask transaction of the TaskExecution protocol
    \* ---- (part_000 62-74), run by the Transaction Coordinator
    tx,          \* per transaction id: state, the steps completed (done, in
                 \* completion order), the compensation actions still to run
                 \* (queue), those attempted with their results (compLog),
                 \* whether it holds its reservation (reserved), and "none"
                 \* until it is over, then Ok or the error (result)
    \* ---- the WebSocket server of the demo launcher (launch-demo.js 244-324)
    wsConns,     \* per client: Closed, or the Authorization header its
                 \* open connection was accepted with
    wsLast,      \* the last connection attempt: client, header, accepted
    \* ---- functions of the program that keep no state between calls
    fnCall,      \* the call made: the function and its arguments
    fnRet,       \* what it returned, NoRet until it has
    \* ---- POST /resources/allocate of the fallback bridge as an HTTP
    \* ---- server (start-maple-broker.js 360-385)
    bqPending,   \* the requests received and not yet handled, oldest first
    bqGranted,   \* the requests answered 'allocated', in the order answered
    \* ---- one stage of the protocol flow (part_000 45-60), run as the Stage
    \* ---- Executor of the design runs it
    stage,       \* the stage run: its number (run), its state, how many
                 \* preconditions passed, actions succeeded (done) and
                 \* postconditions held, the retries used, and the error
    \* ---- start() of the broker script (start-maple-broker.js 43-121)
    brokerPc,      \* "init", then "spawned" (Python broker) or "bridge"
    brokerEvents,  \* the events of the Python broker process and the
                   \* timer, in the order their handlers ran
    bridgeStarts,  \* how many times startFallbackBridge was called
    startResolved, \* the promise of startPythonBroker is resolved
    \* ---- MAPLEDemoLauncher (launch-demo.js 16-600)
    demo,          \* pc: where launch() is; process: the spawned Python
                   \* bridge; pythonProcess: this.pythonProcess is set;
                   \* mockBridges, webSocketServer, demoServer: the servers
                   \* listening; events: the handlers that ran; resolved:
                   \* the promise of startPythonBridge is resolved
    \* ---- MAPLELauncher.startServices (launch.js 107-179)
    launcher       \* pc: where startServices is; attempt: the poll of
                   \* waitForService about to be made; demo: the demo
                   \* service is spawned

aVars == <<aCfg, aPc, aItem, attempts, aLog, aWaits, returnData, aConnected, aErrs, aError>>

rVars == <<rCfg, rPc, rItem, rRuns, rOut, rConnected, rAllocs, rBase, rReleased, rExpired,
          rLast, rNeg>>

cVars == <<cCfg, cPc, cItem, cRuns, cOut, cConnected, cStep, cInflight, cRun, wfSteps, wfLast>>

tVars == <<tx>>

wVars == <<wsConns, wsLast>>

fVars == <<fnCall, fnRet>>

bVars == <<bqPending, bqGranted>>

sVars == <<stage>>

kVars == <<brokerPc, brokerEvents, bridgeStarts, startResolved>>

dVars == <<demo>>

lVars == <<launcher>>

vars == <<aVars, rVars, cVars, tVars, wVars, fVars, bVars, sVars, kVars, dVars, lVars>>

\* what the actions of one component leave alone: the other components
aOthers == <<rVars, cVars, tVars, wVars, fVars, bVars, sVars, kVars, dVars, lVars>>

rOthers == <<aVars, cVars, tVars, wVars, fVars, bVars, sVars, kVars, dVars, lVars>>

cOthers == <<aVars, rVars, tVars, wVars, fVars, bVars, sVars, kVars, dVars, lVars>>

tOthers == <<aVars, rVars, cVars, wVars, fVars, bVars, sVars, kVars, dVars, lVars>>

wOthers == <<aVars, rVars, cVars, tVars, fVars, bVars, sVars, kVars, dVars, lVars>>

fOthers == <<aVars, rVars, cVars, tVars, wVars, bVars, sVars, kVars, dVars, lVars>>

bOthers == <<aVars, rVars, cVars, tVars, wVars, fVars, sVars, kVars, dVars, lVars>>

sOthers == <<aVars, rVars, cVars, tVars, wVars, fVars, bVars, kVars, dVars, lVars>>

kOthers == <<aVars, rVars, cVars, tVars, wVars, fVars, bVars, sVars, dVars, lVars>>

dOthers == <<aVars, rVars, cVars, tVars, wVars, fVars, bVars, sVars, kVars, lVars>>

\* the broker script is the child process of the launcher
lOthers == <<aVars, rVars, cVars, tVars, wVars, fVars, bVars, sVars, dVars>>

(***************************************************************************)
(* Bounds of the model.                                                    *)
(***************************************************************************)
MaxItems == 2
MaxRetry == 2
MaxRuns == 2
MaxAllocs == 2
MaxCores == 60
MaxAgents == 3
MaxWorkflows == 1
MaxTx == 2
MaxConns == 3
MaxFanOut == 2
MaxReconnect == 2
MaxRequests == 3
MaxOutputs == 1
MaxBackoff == 5
MaxTests == 3

Min(a, b) == IF a <= b THEN a ELSE b

RECURSIVE Pow2(_)
Pow2(n) == IF n <= 0 THEN 1 ELSE 2 * Pow2(n - 1)

\* the mutant of AfterConnect: the result of client.connect() is ignored
AfterConnectUnchecked(isOk) == "loop"

\* where execute() of a node goes after client.connect(): into the item
\* loop, or out with a NodeOperationError when the result is not Ok or the
\* call throws
AfterConnect(isOk) == IF isOk THEN "loop" ELSE "threw"

(***************************************************************************)
(* MAPLE Agent node                                                        *)
(***************************************************************************)
\* the operations the node offers, and a value outside the list
AgentOperations ==
    {"sendMessage", "createAgent", "executeTask", "getStatus", "allocateResources"}

\* the operations whose switch case parses a JSON parameter before calling
\* the client (agentConfig, taskConfig)
ParsesJson(operation) == operation \in {"createAgent", "executeTask"}

\* while (attempts <= maxRetryAttempts)
WhileCond(att, maxRetryAttempts) == att <= maxRetryAttempts

\* if (!enableErrorRecovery || attempts > maxRetryAttempts)
GiveUp(enableErrorRecovery, att, maxRetryAttempts) ==
    ~enableErrorRecovery \/ att > maxRetryAttempts

\* the mutant of BackoffDelay: the wait is not capped
BackoffDelayUncapped(att) == 1000 * Pow2(att - 1)

\* Math.min(1000 * Math.pow(2, attempts - 1), 5000)
BackoffDelay(att) == Min(1000 * Pow2(att - 1), 5000)

\* the mutant of AfterSuccess: the break after the push is missing
AfterSuccessNoBreak(i) == i

\* the item the for loop is at after the success branch: the push is followed
\* by break, which leaves the while loop, and the for loop moves on
AfterSuccess(i) == i + 1

\* the error texts a failed client call can carry, and the text of the
\* NodeOperationError the switch throws itself
BrokerErrors == {"timeout", "unavailable"}

ValidationError == "invalid"

\* the mutant of ReportedError: the error of the first attempt is kept
ReportedErrorFirst(errs) == errs[1]

\* error.message in the catch block that gives up: the error caught in this
\* pass, which is the one of the last attempt made
ReportedError(errs) == errs[Len(errs)]

\* the mutant of RetryFrom: a retry starts over at the first item
RetryFromStart(i) == 1

\* the item the for loop is at when the catch block has waited and the
\* while loop goes round again: the same item, no earlier one
RetryFrom(i) == i

\* What one pass through the try block does, before any client call is
\* awaited: "validation" when the switch throws a NodeOperationError
\* (unknown operation, invalid JSON), "call" when it reaches the client.
TryBody(operation, jsonValid) ==
    IF operation \notin AgentOperations THEN "validation"
    ELSE IF ParsesJson(operation) /\ ~jsonValid THEN "validation"
    ELSE "call"

AgentCfgs ==
    [operation : AgentOperations \cup {"unknownOp"},
     enableErrorRecovery : BOOLEAN,
     maxRetryAttempts : (-1) .. MaxRetry,
     continueOnFail : BOOLEAN,
     nItems : 1 .. MaxItems,
     jsonValid : [1 .. MaxItems -> BOOLEAN]]

AgentIdle ==
    /\ aCfg = [operation |-> "getStatus", enableErrorRecovery |-> TRUE,
               maxRetryAttempts |-> 0, continueOnFail |-> FALSE, nItems |-> 1,
               jsonValid |-> [i \in 1 .. MaxItems |-> TRUE]]
    /\ aPc = "idle"
    /\ aItem = 1
    /\ attempts = 0
    /\ aLog = [i \in 1 .. MaxItems |-> <<>>]
    /\ aWaits = [i \in 1 .. MaxItems |-> <<>>]
    /\ returnData = <<>>
    /\ aConnected = FALSE
    /\ aErrs = [i \in 1 .. MaxItems |-> <<>>]
    /\ aError = "none"

AgentInit ==
    /\ aCfg \in AgentCfgs
    /\ \A i \in 1 .. MaxItems : i > aCfg.nItems => aCfg.jsonValid[i]
    /\ aPc = "start"
    /\ aItem = 1
    /\ attempts = 0
    /\ aLog = [i \in 1 .. MaxItems |-> <<>>]
    /\ aWaits = [i \in 1 .. MaxItems |-> <<>>]
    /\ returnData = <<>>
    /\ aConnected = FALSE
    /\ aErrs = [i \in 1 .. MaxItems |-> <<>>]
    /\ aError = "none"

\* client.connect(): a result that is not Ok, or a throw, ends execute with
\* a NodeOperationError before the item loop
AgentConnect ==
    /\ aPc = "start"
    /\ \E ok \in BOOLEAN :
         /\ aPc' = AfterConnect(ok)
         /\ aConnected' = ok
         /\ aError' = IF ok THEN aError ELSE "connect"
    /\ UNCHANGED <<aCfg, aItem, attempts, aLog, aWaits, returnData, aErrs>>
    /\ UNCHANGED aOthers

\* one pass through the body of the while loop: the try block, and on a
\* throw the catch block with its push, rethrow or backoff wait
AgentAttempt ==
    /\ aPc = "loop"
    /\ aItem <= aCfg.nItems
    /\ WhileCond(attempts, aCfg.maxRetryAttempts)
    /\ \E brokerOk \in BOOLEAN, brokerError \in BrokerErrors :
         LET body == TryBody(aCfg.operation, aCfg.jsonValid[aItem])
             outcome == IF body = "validation" THEN "validation"
                        ELSE IF brokerOk THEN "ok" ELSE "broker"
             att == attempts + 1
             error == IF outcome = "validation" THEN ValidationError ELSE brokerError
             errs == IF outcome = "ok" THEN aErrs[aItem] ELSE Append(aErrs[aItem], error)
         IN  /\ body = "validation" => brokerOk
             /\ outcome # "broker" => brokerError = "timeout"
             /\ aLog' = [aLog EXCEPT ![aItem] = Append(@, outcome)]
             /\ aErrs' = [aErrs EXCEPT ![aItem] = errs]
             /\ IF outcome = "ok"
                THEN /\ returnData' = Append(returnData,
                            [item |-> aItem, success |-> TRUE, attempts |-> att,
                             error |-> "none"])
                     /\ aItem' = AfterSuccess(aItem)
                     /\ attempts' = IF aItem' = aItem THEN attempts ELSE 0
                     /\ UNCHANGED <<aPc, aWaits, aError>>
                ELSE IF GiveUp(aCfg.enableErrorRecovery, att, aCfg.maxRetryAttempts)
                THEN IF aCfg.continueOnFail
                     THEN /\ returnData' = Append(returnData,
                                 [item |-> aItem, success |-> FALSE, attempts |-> att,
                                  error |-> ReportedError(errs)])
                          /\ aItem' = aItem + 1
                          /\ attempts' = 0
                          /\ UNCHANGED <<aPc, aWaits, aError>>
                     ELSE /\ aPc' = "threw"
                          /\ aError' = ReportedError(errs)
                          /\ attempts' = att
                          /\ UNCHANGED <<aItem, aWaits, returnData>>
                ELSE /\ attempts' = att
                     /\ aWaits' = [aWaits EXCEPT ![aItem] = Append(@, BackoffDelay(att))]
                     /\ aItem' = RetryFrom(aItem)
                     /\ UNCHANGED <<aPc, returnData, aError>>
    /\ UNCHANGED <<aCfg, aConnected>>
    /\ UNCHANGED aOthers

\* the while condition is false on entry: the item is left without an
\* attempt and without an output entry
AgentSkipItem ==
    /\ aPc = "loop"
    /\ aItem <= aCfg.nItems
    /\ ~WhileCond(attempts, aCfg.maxRetryAttempts)
    /\ aItem' = aItem + 1
    /\ attempts' = 0
    /\ UNCHANGED <<aCfg, aPc, aLog, aWaits, returnData, aConnected, aErrs, aError>>
    /\ UNCHANGED aOthers

\* client.disconnect(); return [returnData]
AgentFinish ==
    /\ aPc = "loop"
    /\ aItem > aCfg.nItems
    /\ aPc' = "done"
    /\ aConnected' = FALSE
    /\ UNCHANGED <<aCfg, aItem, attempts, aLog, aWaits, returnData, aErrs, aError>>
    /\ UNCHANGED aOthers

AgentNext == AgentConnect \/ AgentAttempt \/ AgentSkipItem \/ AgentFinish

(***************************************************************************)
(* Resource Manager node, fallback HTTP bridge, demo WebSocket server      *)
(***************************************************************************)
\* computeCores: default 2 (launch.js 609)
DefaultCores == 2

\* the compute total the Resource Manager reports for a pool (launch.js 1223)
PoolCapacity == 100

CoreChoices == {DefaultCores, MaxCores}

\* the resourcePool options of the node (launch.js 793-799)
Pools == {"default", "high_performance", "gpu_pool", "edge_pool", "custom"}

ResOperations ==
    {"allocateResources", "releaseResources", "monitorUsage",
     "optimizeAllocation", "checkAvailability", "requestNegotiation"}

\* the operations that answer a failed broker call with mock data
\* (launch.js 1141-1153, 1174-1194, 1216-1241, 1262-1292)
MockOnError ==
    {"monitorUsage", "optimizeAllocation", "checkAvailability", "requestNegotiation"}

\* POST /resources/allocate of the fallback bridge: every request is answered
\* 'allocated' with what it asked for, from request.pool || 'default'
BridgeAllocate(request) ==
    [status |-> "allocated",
     allocated |-> request.compute,
     pool |-> IF request.pool = "none" THEN "default" ELSE request.pool]

\* generateMockResponse of the demo WebSocket server: the payload status it
\* answers a message of this type with
WsMockStatus(messageType) ==
    CASE messageType = "AGENT_CREATE" -> "ACTIVE"
      [] messageType = "TASK_EXECUTE" -> "completed"
      [] messageType = "RESOURCE_REQUEST" -> "allocated"
      [] OTHER -> "acknowledged"

\* the resourceRequest allocateResources builds for resourceType 'compute':
\* the chosen resourcePool goes into the metadata it returns, not into the
\* request sent to the broker
ResourceRequest(computeCores, resourcePool) ==
    [compute |-> computeCores, pool |-> "none"]

\* the mutant of ResOutcome: the isOk test of the operation is inverted
ResOutcomeInverted(operation, isOk) ==
    IF operation \notin ResOperations THEN "threw"
    ELSE IF operation \in MockOnError THEN "returned"
    ELSE IF ~isOk THEN "returned" ELSE "threw"

\* what an operation method does with the result of its client call:
\* allocateResources and releaseResources return on isOk and throw
\* otherwise; the four others return on isOk and return mock data otherwise;
\* an operation outside the switch throws
ResOutcome(operation, isOk) ==
    IF operation \notin ResOperations THEN "threw"
    ELSE IF operation \in MockOnError THEN "returned"
    ELSE IF isOk THEN "returned" ELSE "threw"

\* the flexibility options of negotiationParams (launch.js 879-883) and the
\* value requestNegotiation sends when the parameter is not set
Flexibilities == {"strict", "moderate", "flexible"}

DefaultFlexibility == "moderate"

\* the mutant of NegotiationOutcome: only a strict request is answered
\* with mock data when the broker call fails
NegotiationOutcomeStrictMock(flexibility, isOk) ==
    IF flexibility = "strict" \/ isOk THEN "returned" ELSE "threw"

\* how requestNegotiation ends: it returns the broker's value on isOk and
\* the mock negotiation otherwise, whatever the flexibility
NegotiationOutcome(flexibility, isOk) == ResOutcome("requestNegotiation", isOk)

\* what requestNegotiation returns: the broker's payload (the demo server
\* acknowledges a RESOURCE_NEGOTIATE message), or the mock negotiation with
\* its negotiatedTerms and its two alternatives
NegotiationResult(flexibility, isOk) ==
    IF isOk
    THEN [status |-> WsMockStatus("RESOURCE_NEGOTIATE"), negotiatedTerms |-> FALSE,
          alternatives |-> {}]
    ELSE [status |-> "completed", negotiatedTerms |-> TRUE,
          alternatives |-> {"immediate_partial", "scheduled_full"}]

\* the two flexibilities whose negotiations are compared
Compared == {"strict", "flexible"}

NoNegotiation == [f \in Compared |-> "none"]

RECURSIVE SumAmounts(_, _)
SumAmounts(allocs, ids) ==
    IF ids = {} THEN 0
    ELSE LET i == CHOOSE x \in ids : TRUE
         IN  allocs[i].amount + SumAmounts(allocs, ids \ {i})

\* the ids of the allocations granted from pool p that are neither released
\* nor expired
Outstanding(p) ==
    {i \in 1 .. Len(rAllocs) : rAllocs[i].pool = p /\ i \notin rReleased \cup rExpired}

\* the amount of pool p held by granted allocations
Held(p) == SumAmounts(rAllocs, Outstanding(p))

PoolState == [p \in Pools |-> Held(p)]

\* the demand of a request can be met from the free capacity of the pool the
\* bridge serves it from
Fits(request) ==
    request.compute <= PoolCapacity - Held(BridgeAllocate(request).pool)

ResCfgs ==
    [operation : ResOperations \cup {"unknownOp"},
     continueOnFail : BOOLEAN,
     nItems : 1 .. MaxItems]

ResDefaultCfg == [operation |-> "monitorUsage", continueOnFail |-> FALSE, nItems |-> 1]

NoCall ==
    [seq |-> 0, op |-> "none", id |-> 0, again |-> FALSE, brokerOk |-> FALSE,
     outcome |-> "none", flexibility |-> "none", relaxed |-> FALSE, unmet |-> FALSE]

ResIdle ==
    /\ rCfg = ResDefaultCfg
    /\ rPc = "off"
    /\ rItem = 1
    /\ rRuns = 0
    /\ rOut = <<>>
    /\ rConnected = FALSE
    /\ rAllocs = <<>>
    /\ rBase = 0
    /\ rReleased = {}
    /\ rExpired = {}
    /\ rLast = NoCall
    /\ rNeg = NoNegotiation

ResInit ==
    /\ rCfg = ResDefaultCfg
    /\ rPc = "idle"
    /\ rItem = 1
    /\ rRuns = 0
    /\ rOut = <<>>
    /\ rConnected = FALSE
    /\ rAllocs = <<>>
    /\ rBase = 0
    /\ rReleased = {}
    /\ rExpired = {}
    /\ rLast = NoCall
    /\ rNeg = NoNegotiation

\* the workflow runs the node: execute() reads its parameters
ResStart ==
    /\ rPc = "idle"
    /\ rRuns < MaxRuns
    /\ rCfg' \in ResCfgs
    /\ rPc' = "start"
    /\ rRuns' = rRuns + 1
    /\ UNCHANGED <<rItem, rOut, rConnected, rAllocs, rBase, rReleased, rExpired, rLast, rNeg>>
    /\ UNCHANGED rOthers

\* execute() has returned or thrown: its parameters and locals are gone; a
\* throw after connect leaves the client connected
ResExit ==
    /\ rPc \in {"done", "threw"}
    /\ rCfg' = ResDefaultCfg
    /\ rPc' = "idle"
    /\ rItem' = 1
    /\ rOut' = <<>>
    /\ rLast' = NoCall
    /\ rBase' = Len(rAllocs)
    /\ UNCHANGED <<rRuns, rConnected, rAllocs, rReleased, rExpired, rNeg>>
    /\ UNCHANGED rOthers

\* client.connect(): a result that is not Ok, or a throw, ends execute
ResConnect ==
    /\ rPc = "start"
    /\ \E ok \in BOOLEAN :
         /\ rPc' = AfterConnect(ok)
         /\ rConnected' = ok
    /\ UNCHANGED <<rCfg, rItem, rRuns, rOut, rAllocs, rBase, rReleased, rExpired, rLast, rNeg>>
    /\ UNCHANGED rOthers

\* the body of the for loop for one item: the operation method with its
\* client call and the broker's answer, then the push or the rethrow
ResItem ==
    /\ rPc = "loop"
    /\ rItem <= rCfg.nItems
    /\ \E brokerOk \in BOOLEAN, computeCores \in CoreChoices,
          resourcePool \in Pools, allocationId \in 1 .. MaxAllocs,
          flexibility \in Flexibilities :
         LET op == rCfg.operation
             outcome == IF op = "requestNegotiation"
                        THEN NegotiationOutcome(flexibility, brokerOk)
                        ELSE ResOutcome(op, brokerOk)
             negotiated == NegotiationResult(flexibility, brokerOk)
             answer == BridgeAllocate(ResourceRequest(computeCores, resourcePool))
             granted == op = "allocateResources" /\ brokerOk
                            /\ answer.status = "allocated"
             released == op = "releaseResources" /\ outcome = "returned"
                            /\ WsMockStatus("RESOURCE_RELEASE") = "acknowledged"
         IN  /\ op # "allocateResources" =>
                    computeCores = DefaultCores /\ resourcePool = "default"
             /\ op \notin {"releaseResources", "monitorUsage"} => allocationId = 1
             /\ op \notin ResOperations => brokerOk
             /\ op # "requestNegotiation" => flexibility = DefaultFlexibility
             /\ granted => Len(rAllocs) < MaxAllocs
             /\ rAllocs' = IF granted
                           THEN Append(rAllocs,
                                    [pool |-> answer.pool, amount |-> answer.allocated])
                           ELSE rAllocs
             /\ rReleased' = IF released THEN rReleased \cup {allocationId}
                             ELSE rReleased
             /\ rLast' = [seq |-> (rLast.seq + 1) % 2, op |-> op, id |-> allocationId,
                          again |-> allocationId \in rReleased \cup rExpired,
                          brokerOk |-> brokerOk, outcome |-> outcome,
                          flexibility |-> IF op = "requestNegotiation"
                                          THEN flexibility ELSE "none",
                          relaxed |-> /\ op = "requestNegotiation"
                                      /\ outcome = "returned"
                                      /\ \/ negotiated.negotiatedTerms
                                         \/ negotiated.alternatives # {},
                          unmet |-> /\ op = "allocateResources"
                                    /\ ~Fits(ResourceRequest(computeCores, resourcePool))]
             /\ rExpired' = rExpired
             /\ rNeg' = IF PoolState' # PoolState THEN NoNegotiation
                        ELSE IF op = "requestNegotiation" /\ flexibility \in Compared
                        THEN [rNeg EXCEPT ![flexibility] =
                                  IF outcome = "returned" /\ @ \in {"none", "ok"}
                                  THEN "ok"
                                  ELSE IF outcome = "threw" /\ @ \in {"none", "failed"}
                                  THEN "failed"
                                  ELSE "both"]
                        ELSE rNeg
             /\ IF outcome = "returned"
                THEN /\ rOut' = Append(rOut, TRUE)
                     /\ rItem' = rItem + 1
                     /\ rPc' = rPc
                ELSE IF rCfg.continueOnFail
                THEN /\ rOut' = Append(rOut, FALSE)
                     /\ rItem' = rItem + 1
                     /\ rPc' = rPc
                ELSE /\ rPc' = "threw"
                     /\ UNCHANGED <<rOut, rItem>>
    /\ UNCHANGED <<rCfg, rRuns, rConnected, rBase>>
    /\ UNCHANGED rOthers

\* client.disconnect(); return [returnData]
ResFinish ==
    /\ rPc = "loop"
    /\ rItem > rCfg.nItems
    /\ rPc' = "done"
    /\ rConnected' = FALSE
    /\ UNCHANGED <<rCfg, rItem, rRuns, rOut, rAllocs, rBase, rReleased, rExpired, rLast, rNeg>>
    /\ UNCHANGED rOthers

\* time passes the availableUntil (one hour after the grant) of an allocation
AllocExpire ==
    /\ \E i \in 1 .. Len(rAllocs) :
         /\ i \notin rExpired
         /\ rExpired' = rExpired \cup {i}
    /\ UNCHANGED <<rCfg, rPc, rItem, rRuns, rOut, rConnected, rAllocs, rBase, rReleased, rLast>>
    /\ rNeg' = IF PoolState' # PoolState THEN NoNegotiation ELSE rNeg
    /\ UNCHANGED rOthers

ResNext == ResStart \/ ResExit \/ ResConnect \/ ResItem \/ ResFinish \/ AllocExpire

(***************************************************************************)
(* Coordinator node and the workflow endpoints of the fallback bridge      *)
(***************************************************************************)
\* metrics.totalSteps and metrics.successfulSteps of the bridge's answer to
\* a workflow execution (start-maple-broker.js 464, 465)
BridgeTotalSteps == 3

BridgeSuccessfulSteps == 3

CoordOperations ==
    {"createWorkflow", "executeWorkflow", "orchestrateAgents",
     "sequentialPipeline", "parallelProcessing", "monitorExecution"}

\* the coordinationStrategy options the node offers
CoordinationStrategies == {"sequential", "parallel", "pipeline", "dynamic"}

\* the coordinationStrategy values whose case runs the agents in sequence
SequentialStrategies == {"sequential", "pipeline"}

\* the operations and strategies that run executeSequentialCoordination or
\* executeSequentialPipeline
IsSequential(cfg) ==
    \/ cfg.operation = "sequentialPipeline"
    \/ cfg.operation = "orchestrateAgents" /\ cfg.strategy \in SequentialStrategies

\* the operations and strategies that run executeParallelProcessing or
\* executeParallelCoordination
IsParallel(cfg) ==
    \/ cfg.operation = "parallelProcessing"
    \/ cfg.operation = "orchestrateAgents" /\ cfg.strategy = "parallel"

\* the promise the async callback of agents.map returns for one agent, as
\* it stands when map returns: executeParallelProcessing parses the agent's
\* taskParameters inside the callback, so invalid JSON rejects the promise
\* before executeTask is called; otherwise executeTask is awaited
MapCallback(operation, jsonValid) ==
    IF operation = "parallelProcessing" /\ ~jsonValid THEN "rejected" ELSE "inflight"

\* Promise.all(taskPromises), from the states of the promises: it rejects
\* as soon as one promise is rejected, it resolves when all are fulfilled,
\* it is pending otherwise
PromiseAll(tasks, n) ==
    IF \E k \in 1 .. n : tasks[k] = "rejected" THEN "rejected"
    ELSE IF \E k \in 1 .. n : tasks[k] = "inflight" THEN "pending"
    ELSE "resolved"

\* summary of executeParallelProcessing: total, successful, failed;
\* executeParallelCoordination returns no summary
ParallelSummary(operation, results) ==
    IF operation = "parallelProcessing"
    THEN <<Len(results),
           Len(SelectSeq(results, LAMBDA r : r)),
           Len(SelectSeq(results, LAMBDA r : ~r))>>
    ELSE <<>>

\* POST /workflows of the fallback bridge
BridgeCreateWorkflow(nSteps) == [status |-> "created", steps |-> nSteps]

\* POST /workflows/:workflowId/execute of the fallback bridge
BridgeExecuteWorkflow(workflowId) ==
    [workflowId |-> workflowId, status |-> "completed",
     totalSteps |-> BridgeTotalSteps, successfulSteps |-> BridgeSuccessfulSteps]

\* the mutant of SeqOnResult: a failed task does not stop the loop
SeqOnResultContinue(isOk) == "next"

\* the agent loop after an executeTask result: the next agent on isOk, a
\* thrown Error otherwise
SeqOnResult(isOk) == IF isOk THEN "next" ELSE "throw"

Reverse(q) == [k \in 1 .. Len(q) |-> q[Len(q) + 1 - k]]

\* the agents of a run whose task returned success, in completion order
Completed(run) ==
    SelectSeq(run.dispatched,
              LAMBDA a : \E k \in 1 .. Len(run.results) :
                             run.dispatched[k] = a /\ run.results[k])

\* the parameters a run can read: agents (createWorkflow: workflowSteps) and
\* their JSON parameters count only for the operations that read them, the
\* coordinationStrategy only for orchestrateAgents
JsonMaps(n) == {f \in [1 .. MaxAgents -> BOOLEAN] : \A k \in 1 .. MaxAgents : k > n => f[k]}

\* the errorHandling options of the node and its default; maxRetries and
\* its default.  execute() reads both parameters into locals that nothing
\* uses afterwards.
ErrorHandlings == {"fail_fast", "continue", "retry", "fallback"}

DefaultErrorHandling == "retry"

DefaultMaxRetries == 3

\* errorHandling with the maxRetries that goes with it (the parameter is
\* shown for 'retry' only)
ErrorPolicies ==
    [errorHandling : ErrorHandlings \ {"retry"}, maxRetries : {DefaultMaxRetries}]
        \cup [errorHandling : {"retry"}, maxRetries : {0, DefaultMaxRetries}]

DefaultErrorPolicy ==
    [errorHandling |-> DefaultErrorHandling, maxRetries |-> DefaultMaxRetries]

CoordCfgs ==
    UNION {
        [operation : {"executeWorkflow", "monitorExecution", "unknownOp"},
         strategy : {"sequential"}, continueOnFail : BOOLEAN, nItems : 1 .. MaxItems,
         nAgents : {1}, jsonValid : JsonMaps(0), policy : {DefaultErrorPolicy}],
        UNION {[operation : {"parallelProcessing"},
                strategy : {"sequential"}, continueOnFail : BOOLEAN,
                nItems : 1 .. MaxItems, nAgents : {n}, jsonValid : JsonMaps(n),
                policy : {DefaultErrorPolicy}]
               : n \in 1 .. MaxFanOut},
        UNION {[operation : {"orchestrateAgents"},
                strategy : {"parallel"}, continueOnFail : BOOLEAN,
                nItems : 1 .. MaxItems, nAgents : {n}, jsonValid : JsonMaps(n),
                policy : {DefaultErrorPolicy}]
               : n \in 1 .. MaxFanOut},
        UNION {[operation : {"createWorkflow", "sequentialPipeline"},
                strategy : {"sequential"}, continueOnFail : BOOLEAN,
                nItems : 1 .. MaxItems, nAgents : {n}, jsonValid : JsonMaps(n),
                policy : {DefaultErrorPolicy}]
               : n \in 1 .. MaxAgents},
        UNION {[operation : {"orchestrateAgents"},
                strategy : {"sequential"},
                continueOnFail : BOOLEAN,
                nItems : 1 .. MaxItems, nAgents : {n}, jsonValid : JsonMaps(n),
                policy : ErrorPolicies]
               : n \in 1 .. MaxAgents},
        UNION {[operation : {"orchestrateAgents"},
                strategy : {"pipeline", "dynamic"},
                continueOnFail : BOOLEAN,
                nItems : 1 .. MaxItems, nAgents : {n}, jsonValid : JsonMaps(n),
                policy : {DefaultErrorPolicy}]
               : n \in 1 .. MaxAgents}}

NoRun ==
    [dispatched |-> <<>>, results |-> <<>>, comp |-> <<>>, outcome |-> "none",
     tasks |-> [k \in 1 .. MaxAgents |-> "none"], summary |-> <<>>]

NoExec == [workflowId |-> 0, status |-> "none", totalSteps |-> 0, successfulSteps |-> 0]

CoordDefaultCfg ==
    [operation |-> "monitorExecution", strategy |-> "sequential",
     continueOnFail |-> FALSE, nItems |-> 1, nAgents |-> 1,
     jsonValid |-> [k \in 1 .. MaxAgents |-> TRUE], policy |-> DefaultErrorPolicy]

CoordIdle ==
    /\ cCfg = CoordDefaultCfg
    /\ cPc = "off"
    /\ cItem = 1
    /\ cRuns = 0
    /\ cOut = <<>>
    /\ cConnected = FALSE
    /\ cStep = 0
    /\ cInflight = FALSE
    /\ cRun = [i \in 1 .. MaxItems |-> NoRun]
    /\ wfSteps = <<>>
    /\ wfLast = NoExec

CoordInit ==
    /\ cCfg = CoordDefaultCfg
    /\ cPc = "idle"
    /\ cItem = 1
    /\ cRuns = 0
    /\ cOut = <<>>
    /\ cConnected = FALSE
    /\ cStep = 0
    /\ cInflight = FALSE
    /\ cRun = [i \in 1 .. MaxItems |-> NoRun]
    /\ wfSteps = <<>>
    /\ wfLast = NoExec

\* the workflow runs the node: execute() reads its parameters
CoordStart ==
    /\ cPc = "idle"
    /\ cRuns < MaxRuns
    /\ cCfg' \in CoordCfgs
    /\ cPc' = "start"
    /\ cRuns' = cRuns + 1
    /\ UNCHANGED <<cItem, cOut, cStep, cInflight, cRun, cConnected, wfSteps, wfLast>>
    /\ UNCHANGED cOthers

\* execute() has returned or thrown: its parameters and locals are gone; a
\* throw after connect leaves the client connected
CoordExit ==
    /\ cPc \in {"done", "threw"}
    /\ cCfg' = CoordDefaultCfg
    /\ cPc' = "idle"
    /\ cItem' = 1
    /\ cOut' = <<>>
    /\ cStep' = 0
    /\ cInflight' = FALSE
    /\ cRun' = [i \in 1 .. MaxItems |-> NoRun]
    /\ UNCHANGED <<cRuns, cConnected, wfSteps, wfLast>>
    /\ UNCHANGED cOthers

\* client.connect(): a result that is not Ok, or a throw, ends execute
CoordConnect ==
    /\ cPc = "start"
    /\ \E ok \in BOOLEAN :
         /\ cPc' = AfterConnect(ok)
         /\ cConnected' = ok
    /\ UNCHANGED <<cCfg, cItem, cRuns, cOut, cStep, cInflight, cRun, wfSteps, wfLast>>
    /\ UNCHANGED cOthers

\* the end of the for body for the current item: the push of a success
\* entry, or the catch block with its push or rethrow
CoordItemEnd(runs, success) ==
    /\ cRun' = [runs EXCEPT ![cItem].outcome = IF success THEN "success" ELSE "failed"]
    /\ cStep' = 0
    /\ IF success \/ cCfg.continueOnFail
       THEN /\ cOut' = Append(cOut, success)
            /\ cItem' = cItem + 1
            /\ cPc' = cPc
       ELSE /\ cPc' = "threw"
            /\ UNCHANGED <<cOut, cItem>>

\* createWorkflow, executeWorkflow, monitorExecution and the default case of
\* the switch: one client call at most, then the push or the rethrow
CoordSimpleItem ==
    /\ cPc = "loop"
    /\ cItem <= cCfg.nItems
    /\ cCfg.operation \in {"createWorkflow", "executeWorkflow", "monitorExecution", "unknownOp"}
    /\ \E isOk \in BOOLEAN, workflowId \in 1 .. MaxWorkflows :
         LET op == cCfg.operation
             parsed == \A k \in 1 .. cCfg.nAgents : cCfg.jsonValid[k]
             created == op = "createWorkflow" /\ parsed /\ isOk
             executed == op = "executeWorkflow" /\ isOk
             success == \/ created
                        \/ executed
                        \/ op = "monitorExecution"
         IN  /\ op # "executeWorkflow" => workflowId = 1
             /\ (op \in {"monitorExecution", "unknownOp"} \/ (op = "createWorkflow" /\ ~parsed))
                    => isOk
             /\ created => Len(wfSteps) < MaxWorkflows
             /\ wfSteps' = IF created
                           THEN Append(wfSteps, BridgeCreateWorkflow(cCfg.nAgents).steps)
                           ELSE wfSteps
             /\ wfLast' = IF executed THEN BridgeExecuteWorkflow(workflowId) ELSE wfLast
             /\ CoordItemEnd(cRun, success)
    /\ UNCHANGED <<cCfg, cRuns, cConnected, cInflight>>
    /\ UNCHANGED cOthers

\* orchestrateAgents up to its switch: every agent's taskParameters is
\* parsed, then the strategy selects the execution mode or throws
CoordOrchestrate ==
    /\ cPc = "loop"
    /\ cItem <= cCfg.nItems
    /\ cCfg.operation = "orchestrateAgents"
    /\ cStep = 0
    /\ IF (\A k \in 1 .. cCfg.nAgents : cCfg.jsonValid[k])
             /\ cCfg.strategy \in SequentialStrategies \cup {"parallel"}
       THEN /\ cStep' = 1
            /\ UNCHANGED <<cRun, cOut, cItem, cPc>>
       ELSE CoordItemEnd(cRun, FALSE)
    /\ UNCHANGED <<cCfg, cRuns, cConnected, cInflight, wfSteps, wfLast>>
    /\ UNCHANGED cOthers

\* executeSequentialPipeline up to its loop
CoordPipelineBegin ==
    /\ cPc = "loop"
    /\ cItem <= cCfg.nItems
    /\ cCfg.operation = "sequentialPipeline"
    /\ cStep = 0
    /\ cStep' = 1
    /\ UNCHANGED <<cCfg, cPc, cItem, cRuns, cOut, cConnected, cInflight, cRun, wfSteps, wfLast>>
    /\ UNCHANGED cOthers

\* the agent loop up to its await: (executeSequentialPipeline only: the
\* agent's taskParameters is parsed, which may throw) client.executeTask is
\* called for the agent
CoordDispatch ==
    /\ cPc = "loop"
    /\ IsSequential(cCfg)
    /\ cStep \in 1 .. cCfg.nAgents
    /\ ~cInflight
    /\ IF cCfg.operation = "sequentialPipeline" /\ ~cCfg.jsonValid[cStep]
       THEN /\ CoordItemEnd(cRun, FALSE)
            /\ UNCHANGED cInflight
       ELSE /\ cRun' = [cRun EXCEPT ![cItem].dispatched = Append(@, cStep)]
            /\ cInflight' = TRUE
            /\ UNCHANGED <<cStep, cOut, cItem, cPc>>
    /\ UNCHANGED <<cCfg, cRuns, cConnected, wfSteps, wfLast>>
    /\ UNCHANGED cOthers

\* the awaited executeTask returns: the result is kept and the loop goes on,
\* or the Error is thrown; nothing is undone for the tasks that completed
CoordTaskReturn ==
    /\ cPc = "loop"
    /\ cInflight
    /\ cInflight' = FALSE
    /\ \E isOk \in BOOLEAN :
         LET withResult == [cRun EXCEPT ![cItem].results = Append(@, isOk)]
         IN  IF SeqOnResult(isOk) = "next"
             THEN /\ cRun' = withResult
                  /\ cStep' = cStep + 1
                  /\ UNCHANGED <<cOut, cItem, cPc>>
             ELSE CoordItemEnd(withResult, FALSE)
    /\ UNCHANGED <<cCfg, cRuns, cConnected, wfSteps, wfLast>>
    /\ UNCHANGED cOthers

\* the agent loop is over: return { strategy: 'sequential', results, ... }
CoordSeqReturn ==
    /\ cPc = "loop"
    /\ IsSequential(cCfg)
    /\ cStep > cCfg.nAgents
    /\ ~cInflight
    /\ CoordItemEnd(cRun, TRUE)
    /\ UNCHANGED <<cCfg, cRuns, cConnected, cInflight, wfSteps, wfLast>>
    /\ UNCHANGED cOthers

\* executeParallelProcessing up to its map
CoordParallelBegin ==
    /\ cPc = "loop"
    /\ cItem <= cCfg.nItems
    /\ cCfg.operation = "parallelProcessing"
    /\ cStep = 0
    /\ cStep' = 1
    /\ UNCHANGED <<cCfg, cPc, cItem, cRuns, cOut, cConnected, cInflight, cRun, wfSteps, wfLast>>
    /\ UNCHANGED cOthers

\* agents.map(async ...) and the start of await Promise.all: the callback
\* runs for every agent in declaration order up to its await, so every
\* agent whose callback reaches executeTask is dispatched; a promise that is
\* already rejected rejects Promise.all before any task can return, and the
\* method throws with the other tasks in flight
CoordFanOut ==
    /\ cPc = "loop"
    /\ IsParallel(cCfg)
    /\ cStep = 1
    /\ LET n == cCfg.nAgents
           tasks == [k \in 1 .. MaxAgents |->
                        IF k <= n THEN MapCallback(cCfg.operation, cCfg.jsonValid[k])
                        ELSE "none"]
           sent == SelectSeq([k \in 1 .. n |-> k], LAMBDA k : tasks[k] = "inflight")
           begun == [cRun EXCEPT ![cItem].tasks = tasks, ![cItem].dispatched = sent]
       IN  IF PromiseAll(tasks, n) = "rejected"
           THEN CoordItemEnd(begun, FALSE)
           ELSE /\ cRun' = begun
                /\ cStep' = 2
                /\ UNCHANGED <<cOut, cItem, cPc>>
    /\ UNCHANGED <<cCfg, cRuns, cConnected, cInflight, wfSteps, wfLast>>
    /\ UNCHANGED cOthers

\* one executeTask of a fan-out returns, in any order; the callback turns
\* the Result into an entry with success = isOk.  A task of an item whose
\* method has already thrown returns to a promise nobody awaits.
CoordParallelTaskReturn ==
    /\ cPc \in {"loop", "done", "threw"}
    /\ \E i \in 1 .. MaxItems, k \in 1 .. MaxAgents, isOk \in BOOLEAN :
         /\ cRun[i].tasks[k] = "inflight"
         /\ cRun[i].outcome # "none" => isOk
         /\ cRun' = [cRun EXCEPT ![i].tasks[k] =
                         IF cRun[i].outcome # "none" THEN "dropped"
                         ELSE IF isOk THEN "ok" ELSE "err"]
    /\ UNCHANGED <<cCfg, cPc, cItem, cRuns, cOut, cConnected, cStep, cInflight, wfSteps, wfLast>>
    /\ UNCHANGED cOthers

\* Promise.all resolves: results holds the entries in declaration order,
\* executeParallelProcessing counts them into its summary, and the method
\* returns { strategy: 'parallel', ... }
CoordJoin ==
    /\ cPc = "loop"
    /\ IsParallel(cCfg)
    /\ cStep = 2
    /\ PromiseAll(cRun[cItem].tasks, cCfg.nAgents) = "resolved"
    /\ LET results == [k \in 1 .. cCfg.nAgents |-> cRun[cItem].tasks[k] = "ok"]
           joined == [cRun EXCEPT ![cItem].results = results,
                                  ![cItem].summary =
                                      ParallelSummary(cCfg.operation, results)]
       IN  CoordItemEnd(joined, TRUE)
    /\ UNCHANGED <<cCfg, cRuns, cConnected, cInflight, wfSteps, wfLast>>
    /\ UNCHANGED cOthers

\* client.disconnect(); return [returnData]
CoordFinish ==
    /\ cPc = "loop"
    /\ cItem > cCfg.nItems
    /\ cPc' = "done"
    /\ cConnected' = FALSE
    /\ UNCHANGED <<cCfg, cItem, cRuns, cOut, cStep, cInflight, cRun, wfSteps, wfLast>>
    /\ UNCHANGED cOthers

CoordNext ==
    \/ CoordStart
    \/ CoordExit
    \/ CoordConnect
    \/ CoordSimpleItem
    \/ CoordOrchestrate
    \/ CoordPipelineBegin
    \/ CoordDispatch
    \/ CoordTaskReturn
    \/ CoordSeqReturn
    \/ CoordParallelBegin
    \/ CoordFanOut
    \/ CoordParallelTaskReturn
    \/ CoordJoin
    \/ CoordFinish

(***************************************************************************)
(* Transaction ExecuteTask (part_000 62-74), run as the Transaction        *)
(* Coordinator of the design runs a transaction                            *)
(***************************************************************************)
\* steps: [validateInput(), processTask(), validateOutput()]
TxSteps == <<"validateInput", "processTask", "validateOutput">>

\* compensation: [releaseResources(), notifyFailure()]
TxCompensation == <<"releaseResources", "notifyFailure">>

TxTerminalStates == {"COMPLETED", "COMPENSATED", "FAILED"}

\* INITIATED -> RESOURCES_RESERVED -> EXECUTING ->
\*     {COMPLETED | COMPENSATING -> {COMPENSATED | FAILED}}
TxEdges ==
    {<<"INITIATED", "RESOURCES_RESERVED">>,
     <<"RESOURCES_RESERVED", "EXECUTING">>,
     <<"EXECUTING", "COMPLETED">>,
     <<"EXECUTING", "COMPENSATING">>,
     <<"COMPENSATING", "COMPENSATED">>,
     <<"COMPENSATING", "FAILED">>}

\* the compensation actions to run when the transaction fails with the
\* steps `done` completed: the undo of each completed step, last completed
\* first, then the declared compensations (resource release and failure
\* notification are always included)
CompensationPlan(done) ==
    [k \in 1 .. Len(done) |-> [action |-> "undo", step |-> done[Len(done) + 1 - k]]]
        \o [k \in 1 .. Len(TxCompensation) |-> [action |-> TxCompensation[k], step |-> 0]]

\* the mutant of TxAfterCompensation: a failed compensation is only logged
TxAfterCompensationIgnoreFailures(log) == "COMPENSATED"

\* the terminal state after the unwind: FAILED if any compensation failed
TxAfterCompensation(log) ==
    IF \E k \in 1 .. Len(log) : ~log[k].ok THEN "FAILED" ELSE "COMPENSATED"

\* the mutant of TxOnStepFailure: a failed step ends the transaction at once
TxOnStepFailureNoUnwind == "FAILED"

\* the state an irrecoverable step failure leads to
TxOnStepFailure == "COMPENSATING"

\* the mutant of TxMayStep: forward steps go on while the unwind runs
TxMayStepWhileUnwinding(state) == state \in {"EXECUTING", "COMPENSATING"}

\* the states in which the coordinator runs a forward step
TxMayStep(state) == state = "EXECUTING"

\* the mutant of TxCancelPending: a requested cancellation is not looked at
TxCancelIgnored(cancelled) == FALSE

\* the coordinator looks for a requested cancellation before every forward
\* move of a transaction it executes
TxCancelPending(cancelled) == cancelled

TxIds == 1 .. MaxTx

NoTx ==
    [state |-> "NONE", done |-> <<>>, queue |-> <<>>, compLog |-> <<>>,
     reserved |-> FALSE, result |-> "none", cancelled |-> FALSE]

\* a transaction as created when a caller requests the atomic execution of
\* the step sequence
NewTx == [NoTx EXCEPT !.state = "INITIATED"]

TxIdle == tx = [t \in TxIds |-> NoTx]

\* each transaction executes on its own worker
TxInit == tx = [t \in TxIds |-> NewTx]

\* steps 1 and 2: the participants are validated, then the resources of the
\* whole transaction are reserved; either failure aborts with nothing
\* reserved and no other effect
TxAdmit(t) ==
    /\ tx[t].state = "INITIATED"
    /\ tx[t].result = "none"
    /\ \E reachable \in BOOLEAN, granted \in BOOLEAN :
         tx' = IF ~reachable
               THEN [tx EXCEPT ![t].result = "PARTICIPANT_UNAVAILABLE"]
               ELSE IF ~granted
               THEN [tx EXCEPT ![t].result = "RESOURCE_UNAVAILABLE"]
               ELSE [tx EXCEPT ![t].state = "RESOURCES_RESERVED",
                               ![t].reserved = TRUE]
    /\ UNCHANGED tOthers

\* step 3 begins
TxBegin(t) ==
    /\ tx[t].state = "RESOURCES_RESERVED"
    /\ tx' = [tx EXCEPT ![t].state = "EXECUTING"]
    /\ UNCHANGED tOthers

\* step 3 and 5: the next step runs through the Stage Executor; it succeeds,
\* or it fails irrecoverably (a non-retryable error, or retries exhausted)
\* and the transaction starts to unwind
TxStep(t) ==
    /\ TxMayStep(tx[t].state)
    /\ ~TxCancelPending(tx[t].cancelled)
    /\ Len(tx[t].done) < Len(TxSteps)
    /\ \E ok \in BOOLEAN :
         tx' = IF ok
               THEN [tx EXCEPT ![t].done = Append(@, Len(@) + 1)]
               ELSE [tx EXCEPT ![t].state = TxOnStepFailure,
                               ![t].queue = CompensationPlan(tx[t].done)]
    /\ UNCHANGED tOthers

\* step 4: every step succeeded; the resources are released
TxComplete(t) ==
    /\ tx[t].state = "EXECUTING"
    /\ ~TxCancelPending(tx[t].cancelled)
    /\ Len(tx[t].done) = Len(TxSteps)
    /\ tx' = [tx EXCEPT ![t].state = "COMPLETED",
                        ![t].reserved = FALSE,
                        ![t].result = "Ok"]
    /\ UNCHANGED tOthers

\* a caller cancels a transaction that has not ended: the request is noted
TxCancel(t) ==
    /\ tx[t].state \in {"INITIATED", "RESOURCES_RESERVED", "EXECUTING"}
    /\ tx[t].result = "none"
    /\ ~tx[t].cancelled
    /\ tx' = [tx EXCEPT ![t].cancelled = TRUE]
    /\ UNCHANGED tOthers

\* the cancellation acts as a failure of the step at hand: the transaction
\* starts to unwind the steps it completed
TxCancelled(t) ==
    /\ tx[t].state = "EXECUTING"
    /\ TxCancelPending(tx[t].cancelled)
    /\ tx' = [tx EXCEPT ![t].state = TxOnStepFailure,
                        ![t].queue = CompensationPlan(tx[t].done)]
    /\ UNCHANGED tOthers

\* step 5: the next compensation action runs; a failure is logged and does
\* not block the ones after it
TxCompensate(t) ==
    /\ tx[t].state = "COMPENSATING"
    /\ tx[t].queue # <<>>
    /\ \E ok \in BOOLEAN :
         LET c == Head(tx[t].queue)
         IN  tx' = [tx EXCEPT
                     ![t].compLog = Append(@, [action |-> c.action, step |-> c.step,
                                               ok |-> ok]),
                     ![t].reserved = IF c.action = "releaseResources" /\ ok
                                     THEN FALSE ELSE @,
                     ![t].queue = Tail(@)]
    /\ UNCHANGED tOthers

\* step 5, end of the unwind
TxFinish(t) ==
    /\ tx[t].state = "COMPENSATING"
    /\ tx[t].queue = <<>>
    /\ LET final == TxAfterCompensation(tx[t].compLog)
       IN  tx' = [tx EXCEPT ![t].state = final,
                            ![t].result = IF final = "FAILED"
                                          THEN "COMPENSATION_FAILED"
                                          ELSE "ACTION_EXECUTION_FAILED"]
    /\ UNCHANGED tOthers

TxNext ==
    \E t \in TxIds :
        \/ TxAdmit(t)
        \/ TxBegin(t)
        \/ TxStep(t)
        \/ TxComplete(t)
        \/ TxCompensate(t)
        \/ TxFinish(t)

\* one transaction that its caller may cancel
TxCancelInit == tx = [t \in TxIds |-> IF t = 1 THEN NewTx ELSE NoTx]

TxCancelNext ==
    \/ TxNext
    \/ \E t \in TxIds : TxCancel(t)
    \/ \E t \in TxIds : TxCancelled(t)

(***************************************************************************)
(* WebSocket server of the demo launcher                                   *)
(***************************************************************************)
\* this.apiKey of the demo launcher, the key testSecurity presents as the
\* invalid one, and an empty key
ValidApiKey == "demo-key-12345"

ApiKeys == {ValidApiKey, "invalid-key", ""}

NoHeader == [scheme |-> "none", key |-> ""]

\* 'Authorization': 'Bearer ' + apiKey, as the credentials build it
AuthHeader(apiKey) == [scheme |-> "Bearer ", key |-> apiKey]

\* the headers a connection attempt can carry: none, another scheme, or a
\* bearer token with some key
Headers == {NoHeader, [scheme |-> "Basic ", key |-> ValidApiKey]}
               \cup {AuthHeader(k) : k \in ApiKeys}

\* verifyClient: authHeader && authHeader.startsWith('Bearer ')
VerifyClient(authHeader) == authHeader # NoHeader /\ authHeader.scheme = "Bearer "

Clients == 1 .. MaxConns

\* a client without a connection, and a client of a server that is not up
Closed == [scheme |-> "closed", key |-> ""]

Off == [scheme |-> "off", key |-> ""]

NoAttempt == [client |-> 0, header |-> NoHeader, accepted |-> FALSE]

WsIdle ==
    /\ wsConns = [c \in Clients |-> Off]
    /\ wsLast = NoAttempt

\* the server is listening, no client is connected
WsInit ==
    /\ wsConns = [c \in Clients |-> Closed]
    /\ wsLast = NoAttempt

\* a client opens a WebSocket: the server runs verifyClient on the upgrade
\* request and accepts or refuses the connection
WsConnect ==
    /\ \E c \in Clients, h \in Headers :
         /\ wsConns[c] = Closed
         /\ wsConns' = IF VerifyClient(h) THEN [wsConns EXCEPT ![c] = h] ELSE wsConns
         /\ wsLast' = [client |-> c, header |-> h, accepted |-> VerifyClient(h)]
    /\ UNCHANGED wOthers

\* ws.on('close')
WsClose ==
    /\ \E c \in Clients :
         /\ wsConns[c] \notin {Closed, Off}
         /\ wsConns' = [wsConns EXCEPT ![c] = Closed]
    /\ UNCHANGED wsLast
    /\ UNCHANGED wOthers

WsNext == WsConnect \/ WsClose

(***************************************************************************)
(* Functions that keep no state between calls                              *)
(***************************************************************************)
Nodes == {"agent", "resourceManager", "coordinator"}

\* maxReconnectAttempts: credentials.maxReconnectAttempts || 5
DefaultMaxReconnectAttempts == 5

\* a || b of JavaScript for a boolean a and for a number a
OrBool(a, b) == IF a THEN a ELSE b

OrNum(a, b) == IF a # 0 THEN a ELSE b

\* the options execute() of a node passes to new MAPLEClient, from the
\* credentials: reconnect: credentials.enableReconnect || true,
\* maxReconnectAttempts: credentials.maxReconnectAttempts || 5
ClientOptions(credentials) ==
    [reconnect |-> OrBool(credentials.enableReconnect, TRUE),
     maxReconnectAttempts |->
         OrNum(credentials.maxReconnectAttempts, DefaultMaxReconnectAttempts)]

Credentials == [enableReconnect : BOOLEAN, maxReconnectAttempts : 0 .. MaxReconnect]

NewClientCalls == [fn : {"newClient"}, node : Nodes, credentials : Credentials]

\* the acceptable trade-offs the node offers (launch.js 889-894)
Tradeoffs == {"performance", "cost", "wait_time", "duration"}

\* what the terms requestNegotiation returns give up: the broker's
\* acknowledgement carries no terms; the mock negotiation has a waitTime of
\* 2 to 11 minutes and guaranteedResources of 70 to 99 percent, whatever
\* trade-offs the request accepts
RelaxedBy(acceptableTradeoffs, isOk) ==
    IF isOk THEN {} ELSE {"wait_time", "performance"}

NegotiationCalls ==
    [fn : {"requestNegotiation"}, flexibility : Flexibilities,
     acceptableTradeoffs : SUBSET Tradeoffs, isOk : BOOLEAN]

\* the values a Result is built from: those of testResultType and an empty
\* string
Values == {"success value", "error message", "default", ""}

\* the Result constructors of lib/MAPLEClient, as the nodes and the test
\* suite read their results: isOk, isErr, value, error
Ok(value) == [isOk |-> TRUE, isErr |-> FALSE, value |-> value]

Err(error) == [isOk |-> FALSE, isErr |-> TRUE, error |-> error]

\* the mutant of UnwrapOr: the default is returned whatever the result
UnwrapOrDefault(result, default) == default

UnwrapOr(result, default) == IF result.isOk THEN result.value ELSE default

\* testResultType of the test suite (part_004 79-104)
TestResultType ==
    LET okResult == Ok("success value")
        errResult == Err("error message")
    IN  IF ~okResult.isOk \/ okResult.value # "success value"
        THEN [success |-> FALSE, details |-> "Ok result creation failed"]
        ELSE IF ~errResult.isErr \/ errResult.error # "error message"
        THEN [success |-> FALSE, details |-> "Err result creation failed"]
        ELSE IF UnwrapOr(okResult, "default") # "success value"
        THEN [success |-> FALSE, details |-> "unwrapOr method failed"]
        ELSE [success |-> TRUE, details |-> "All Result type operations passed"]

ResultCalls ==
    [fn : {"Ok"}, value : Values, default : Values]
        \cup [fn : {"Err"}, error : Values, default : Values]
        \cup {[fn |-> "testResultType"]}

\* the allocationStrategy options of the node (launch.js 711-742)
AllocationStrategies == {"best_fit", "first_fit", "balanced", "performance"}

\* the pools of the resourcePool option, in the order of the options
PoolOrder == <<"default", "high_performance", "gpu_pool", "edge_pool">>

\* the free capacity a pool may have when the request arrives
FreeChoices == {DefaultCores, PoolCapacity}

\* allocateResources of the Resource Manager node for the resource type
\* compute: the strategy and the pool go into the metadata of the return
\* value, the request carries the priority and the cores; the allocation is
\* the answer of the bridge to that request
AllocateResourcesReturn(strategy, resourcePool, computeCores, isOk) ==
    IF isOk
    THEN [threw |-> FALSE,
          allocation |-> BridgeAllocate(ResourceRequest(computeCores, resourcePool)),
          metadata |-> [strategy |-> strategy, resourcePool |-> resourcePool]]
    ELSE [threw |-> TRUE]

AllocateCalls ==
    [fn : {"allocateResources"}, strategy : AllocationStrategies,
     resourcePool : {PoolOrder[k] : k \in 1 .. Len(PoolOrder)},
     computeCores : CoreChoices,
     free : [{PoolOrder[k] : k \in 1 .. Len(PoolOrder)} -> FreeChoices],
     isOk : BOOLEAN]

\* the retry loop of the Agent node for an item whose every attempt fails,
\* from the attempt count att on: the attempts made and the waits between
\* them
RECURSIVE RetryRun(_, _, _)
RetryRun(att, enableErrorRecovery, maxRetryAttempts) ==
    IF ~WhileCond(att, maxRetryAttempts)
    THEN [attempts |-> att, waits |-> <<>>]
    ELSE IF GiveUp(enableErrorRecovery, att + 1, maxRetryAttempts)
    THEN [attempts |-> att + 1, waits |-> <<>>]
    ELSE LET rest == RetryRun(att + 1, enableErrorRecovery, maxRetryAttempts)
         IN  [attempts |-> rest.attempts,
              waits |-> <<BackoffDelay(att + 1)>> \o rest.waits]

RetryCalls ==
    [fn : {"retryLoop"}, enableErrorRecovery : BOOLEAN,
     maxRetryAttempts : (-1) .. MaxBackoff]

\* what MAPLEProductionLauncher.deployServices starts: the manifests on
\* kubernetes; on docker the compose project, or without docker-compose.yml
\* the container maple-server; natively the pm2 process maple-server, or
\* without pm2 a spawned node process
Environments == {"kubernetes", "docker", "native"}

DeployServices(environment, composeFile, pm2) ==
    CASE environment = "kubernetes" -> {"manifests"}
      [] environment = "docker" -> IF composeFile THEN {"compose"} ELSE {"container"}
      [] OTHER -> IF pm2 THEN {"pm2"} ELSE {"process"}

\* what rollback stops: kubectl delete -f k8s/; docker-compose down;
\* this.mapleProcess.kill() and pm2 delete maple-server
Rollback(environment) ==
    CASE environment = "kubernetes" -> {"manifests"}
      [] environment = "docker" -> {"compose"}
      [] OTHER -> {"process", "pm2"}

RollbackCalls ==
    [fn : {"rollback"}, environment : Environments, composeFile : BOOLEAN,
     pm2 : BOOLEAN]

\* runAllTests of the test suite: the test categories record their results
\* with recordTest; true is returned unless one of them or the report threw
RunAllTests(testResults, threw) == ~threw

TestRunCalls ==
    UNION {[fn : {"runAllTests"}, testResults : [1 .. n -> BOOLEAN], threw : BOOLEAN] :
               n \in 1 .. MaxTests}

NoFnCall == [fn |-> "none"]

NoRet == [fn |-> "none"]

FnCalls ==
    NewClientCalls \cup NegotiationCalls \cup ResultCalls \cup AllocateCalls
        \cup RetryCalls \cup RollbackCalls \cup TestRunCalls

FnIdle ==
    /\ fnCall = NoFnCall
    /\ fnRet = NoRet

FnInit ==
    /\ fnCall \in FnCalls
    /\ fnRet = NoRet

\* execute() of a node builds its client
NewClient ==
    /\ fnCall.fn = "newClient"
    /\ fnRet = NoRet
    /\ fnRet' = [fn |-> "newClient", options |-> ClientOptions(fnCall.credentials)]
    /\ UNCHANGED fnCall
    /\ UNCHANGED fOthers

\* requestNegotiation of the Resource Manager node
RequestNegotiation ==
    /\ fnCall.fn = "requestNegotiation"
    /\ fnRet = NoRet
    /\ fnRet' = [fn |-> "requestNegotiation",
                 outcome |-> NegotiationOutcome(fnCall.flexibility, fnCall.isOk),
                 result |-> NegotiationResult(fnCall.flexibility, fnCall.isOk),
                 relaxed |-> RelaxedBy(fnCall.acceptableTradeoffs, fnCall.isOk)]
    /\ UNCHANGED fnCall
    /\ UNCHANGED fOthers

\* Ok(value), read through unwrapOr(default)
ResultOk ==
    /\ fnCall.fn = "Ok"
    /\ fnRet = NoRet
    /\ fnRet' = [fn |-> "Ok", result |-> Ok(fnCall.value),
                 unwrapped |-> UnwrapOr(Ok(fnCall.value), fnCall.default)]
    /\ UNCHANGED fnCall
    /\ UNCHANGED fOthers

\* Err(error), read through unwrapOr(default)
ResultErr ==
    /\ fnCall.fn = "Err"
    /\ fnRet = NoRet
    /\ fnRet' = [fn |-> "Err", result |-> Err(fnCall.error),
                 unwrapped |-> UnwrapOr(Err(fnCall.error), fnCall.default)]
    /\ UNCHANGED fnCall
    /\ UNCHANGED fOthers

RunTestResultType ==
    /\ fnCall.fn = "testResultType"
    /\ fnRet = NoRet
    /\ fnRet' = [fn |-> "testResultType", report |-> TestResultType]
    /\ UNCHANGED fnCall
    /\ UNCHANGED fOthers

\* allocateResources of the Resource Manager node
AllocateResources ==
    /\ fnCall.fn = "allocateResources"
    /\ fnRet = NoRet
    /\ fnRet' = [fn |-> "allocateResources",
                 ret |-> AllocateResourcesReturn(fnCall.strategy, fnCall.resourcePool,
                                                 fnCall.computeCores, fnCall.isOk)]
    /\ UNCHANGED fnCall
    /\ UNCHANGED fOthers

\* the retry loop of the Agent node on an item that keeps failing
RetryLoop ==
    /\ fnCall.fn = "retryLoop"
    /\ fnRet = NoRet
    /\ fnRet' = [fn |-> "retryLoop",
                 run |-> RetryRun(0, fnCall.enableErrorRecovery,
                                  fnCall.maxRetryAttempts)]
    /\ UNCHANGED fnCall
    /\ UNCHANGED fOthers

\* launch() of the production launcher fails after deployServices: what
\* still runs when rollback has returned
LaunchRollback ==
    /\ fnCall.fn = "rollback"
    /\ fnRet = NoRet
    /\ LET started == DeployServices(fnCall.environment, fnCall.composeFile,
                                     fnCall.pm2)
       IN  fnRet' = [fn |-> "rollback", started |-> started,
                     running |-> started \ Rollback(fnCall.environment)]
    /\ UNCHANGED fnCall
    /\ UNCHANGED fOthers

RunTests ==
    /\ fnCall.fn = "runAllTests"
    /\ fnRet = NoRet
    /\ fnRet' = [fn |-> "runAllTests",
                 returned |-> RunAllTests(fnCall.testResults, fnCall.threw)]
    /\ UNCHANGED fnCall
    /\ UNCHANGED fOthers

FnNext ==
    \/ RetryLoop
    \/ LaunchRollback
    \/ RunTests
    \/ NewClient
    \/ RequestNegotiation
    \/ ResultOk
    \/ ResultErr
    \/ RunTestResultType
    \/ AllocateResources

(***************************************************************************)
(* Stage TaskInitiation (part_000 45-60), run as the Stage Executor of the *)
(* design runs a stage                                                     *)
(***************************************************************************)
\* preconditions: [authenticated(sender), hasCapacity(receiver)]
StagePreconditions == <<"authenticated", "hasCapacity">>

\* actions: [validateTask(payload), assignResources(), notifyParticipants()]
StageActions == <<"validateTask", "assignResources", "notifyParticipants">>

\* postconditions: [taskAssigned(), resourcesAllocated()]
StagePostconditions == <<"taskAssigned", "resourcesAllocated">>

\* error: retry(max=3)
StageMaxAttempts == 3

\* a failing postcondition is answered by one more run of the whole stage
StageMaxRuns == 2

\* PENDING -> CHECKING_PRECONDITIONS -> EXECUTING ->
\*     CHECKING_POSTCONDITIONS -> {SUCCEEDED | FAILED}
StageOrder ==
    <<"PENDING", "CHECKING_PRECONDITIONS", "EXECUTING", "CHECKING_POSTCONDITIONS">>

StageTerminalStates == {"SUCCEEDED", "FAILED"}

\* the mutant of PreconditionsPassed: one passed precondition is enough
PreconditionsPassedAny(passed) == passed >= 1

\* the actions start when every precondition has passed
PreconditionsPassed(passed) == passed = Len(StagePreconditions)

\* the postcondition checks start when every action has succeeded
ActionsSucceeded(done) == done = Len(StageActions)

NoStage ==
    [run |-> 0, state |-> "NONE", passed |-> 0, done |-> 0, held |-> 0,
     retries |-> 0, error |-> "none"]

\* a stage run as instantiated for a transaction
NewStageRun(run) == [NoStage EXCEPT !.run = run, !.state = "PENDING"]

StageIdle == stage = NoStage

StageInit == stage = NewStageRun(1)

StageBegin ==
    /\ stage.state = "PENDING"
    /\ stage' = [stage EXCEPT !.state = "CHECKING_PRECONDITIONS"]
    /\ UNCHANGED sOthers

\* the preconditions are evaluated in declaration order; the first failing
\* one aborts the stage with PRECONDITION_FAILED and is not retried
StageCheckPrecondition ==
    /\ stage.state = "CHECKING_PRECONDITIONS"
    /\ ~PreconditionsPassed(stage.passed)
    /\ \E ok \in BOOLEAN :
         stage' = IF ok
                  THEN [stage EXCEPT !.passed = @ + 1]
                  ELSE [stage EXCEPT !.state = "FAILED",
                                     !.error = "PRECONDITION_FAILED"]
    /\ UNCHANGED sOthers

StageExecute ==
    /\ stage.state = "CHECKING_PRECONDITIONS"
    /\ PreconditionsPassed(stage.passed)
    /\ stage' = [stage EXCEPT !.state = "EXECUTING"]
    /\ UNCHANGED sOthers

\* the actions execute in declaration order; an action that fails with a
\* recoverable error is retried, it and not the ones before it, until the
\* retries of the policy are used up, then the stage is FAILED; an error
\* that is not recoverable fails the stage at once
StageAction ==
    /\ stage.state = "EXECUTING"
    /\ ~ActionsSucceeded(stage.done)
    /\ \E outcome \in {"Ok", "ACTION_EXECUTION_FAILED", "VALIDATION_ERROR"} :
         stage' = IF outcome = "Ok"
                  THEN [stage EXCEPT !.done = @ + 1]
                  ELSE IF outcome = "ACTION_EXECUTION_FAILED"
                          /\ stage.retries < StageMaxAttempts
                  THEN [stage EXCEPT !.retries = @ + 1]
                  ELSE [stage EXCEPT !.state = "FAILED", !.error = outcome]
    /\ UNCHANGED sOthers

StageCheck ==
    /\ stage.state = "EXECUTING"
    /\ ActionsSucceeded(stage.done)
    /\ stage' = [stage EXCEPT !.state = "CHECKING_POSTCONDITIONS"]
    /\ UNCHANGED sOthers

\* a failing postcondition fails the run; the first time, the stage as a
\* whole is run once more
StageCheckPostcondition ==
    /\ stage.state = "CHECKING_POSTCONDITIONS"
    /\ stage.held < Len(StagePostconditions)
    /\ \E ok \in BOOLEAN :
         stage' = IF ok
                  THEN [stage EXCEPT !.held = @ + 1]
                  ELSE [stage EXCEPT !.state = "FAILED",
                                     !.error = "ACTION_EXECUTION_FAILED"]
    /\ UNCHANGED sOthers

StageSucceed ==
    /\ stage.state = "CHECKING_POSTCONDITIONS"
    /\ stage.held = Len(StagePostconditions)
    /\ stage' = [stage EXCEPT !.state = "SUCCEEDED"]
    /\ UNCHANGED sOthers

\* the one additional run of the stage after a failed postcondition
StageRunAgain ==
    /\ stage.state = "FAILED"
    /\ stage.passed = Len(StagePreconditions)
    /\ ActionsSucceeded(stage.done)
    /\ stage.run < StageMaxRuns
    /\ stage' = NewStageRun(stage.run + 1)
    /\ UNCHANGED sOthers

StageNext ==
    \/ StageBegin
    \/ StageCheckPrecondition
    \/ StageExecute
    \/ StageAction
    \/ StageCheck
    \/ StageCheckPostcondition
    \/ StageSucceed
    \/ StageRunAgain

(***************************************************************************)
(* The fallback bridge serving competing allocation requests               *)
(***************************************************************************)
\* the resourcePriority options of the node (launch.js 697-701)
Priorities == {"HIGH", "MEDIUM", "LOW"}

PriorityRank(priority) ==
    CASE priority = "HIGH" -> 3
      [] priority = "MEDIUM" -> 2
      [] priority = "LOW" -> 1

\* the pending request the server hands to the route handler: requests are
\* handled one at a time in the order they arrived; request.priority is not
\* looked at
NextHandled(pending) == 1

\* the pending requests without the k-th
Without(q, k) == [j \in 1 .. Len(q) - 1 |-> IF j < k THEN q[j] ELSE q[j + 1]]

BridgeIdle ==
    /\ bqPending = <<>>
    /\ bqGranted = <<>>

BridgeInit ==
    /\ bqPending = <<>>
    /\ bqGranted = <<>>

\* a node posts an allocation request; id numbers the requests in the order
\* of submission
BridgeReceive ==
    /\ Len(bqPending) + Len(bqGranted) < MaxRequests
    /\ \E priority \in Priorities :
         bqPending' = Append(bqPending,
                          [id |-> Len(bqPending) + Len(bqGranted) + 1,
                           priority |-> priority])
    /\ UNCHANGED bqGranted
    /\ UNCHANGED bOthers

\* the route handler runs for one request and answers 'allocated'; noted
\* with the grant: the pending requests of higher priority it was served
\* before (passed), and those of equal priority submitted earlier (overtook)
BridgeHandle ==
    /\ bqPending # <<>>
    /\ LET k == NextHandled(bqPending)
           request == bqPending[k]
           others == {bqPending[j] : j \in 1 .. Len(bqPending)} \ {request}
       IN  /\ bqGranted' = Append(bqGranted,
                   [id |-> request.id, priority |-> request.priority,
                    passed |-> {o.id : o \in {x \in others :
                                   PriorityRank(x.priority) > PriorityRank(request.priority)}},
                    overtook |-> {o.id : o \in {x \in others :
                                   x.priority = request.priority /\ x.id < request.id}}])
           /\ bqPending' = Without(bqPending, k)
    /\ UNCHANGED bOthers

BridgeNext == BridgeReceive \/ BridgeHandle

(***************************************************************************)
(* start() of the broker script                                            *)
(***************************************************************************)
\* startFallbackBridge builds the express app and calls app.listen on the
\* bridge port, whether or not a bridge is already listening
StartFallbackBridge(starts) == starts + 1

\* how many events of these kinds have been handled
Handled(events, kinds) == Cardinality({k \in 1 .. Len(events) : events[k] \in kinds})

\* output.includes('running') || includes('started') || includes('listening')
ReadyOutput == "stdout_ready"

BrokerStartIdle ==
    /\ brokerPc = "off"
    /\ brokerEvents = <<>>
    /\ bridgeStarts = 0
    /\ startResolved = FALSE

BrokerStartInit ==
    /\ brokerPc = "init"
    /\ brokerEvents = <<>>
    /\ bridgeStarts = 0
    /\ startResolved = FALSE

\* start(): the Python broker is spawned when its script was found,
\* otherwise the fallback bridge is started
BrokerScriptStart ==
    /\ brokerPc = "init"
    /\ \E found \in BOOLEAN :
         IF found
         THEN /\ brokerPc' = "spawned"
              /\ UNCHANGED bridgeStarts
         ELSE /\ brokerPc' = "bridge"
              /\ bridgeStarts' = StartFallbackBridge(bridgeStarts)
    /\ UNCHANGED <<brokerEvents, startResolved>>
    /\ UNCHANGED kOthers

\* stdout.on('data'): resolves when the output names a running broker
OnBrokerStdout ==
    /\ brokerPc = "spawned"
    /\ Handled(brokerEvents, {"stdout_ready", "stdout_other"}) < MaxOutputs
    /\ \E output \in {"stdout_ready", "stdout_other"} :
         /\ brokerEvents' = Append(brokerEvents, output)
         /\ startResolved' = (startResolved \/ output = ReadyOutput)
    /\ UNCHANGED <<brokerPc, bridgeStarts>>
    /\ UNCHANGED kOthers

\* on('error'): the fallback is started and the promise resolved
OnBrokerError ==
    /\ brokerPc = "spawned"
    /\ Handled(brokerEvents, {"error"}) = 0
    /\ brokerEvents' = Append(brokerEvents, "error")
    /\ bridgeStarts' = StartFallbackBridge(bridgeStarts)
    /\ startResolved' = TRUE
    /\ UNCHANGED brokerPc
    /\ UNCHANGED kOthers

\* on('exit'): with a code other than 0 the fallback is started and the
\* promise resolved
OnBrokerExit ==
    /\ brokerPc = "spawned"
    /\ Handled(brokerEvents, {"exit_0", "exit_1"}) = 0
    /\ \E code \in {0, 1} :
         /\ brokerEvents' = Append(brokerEvents, IF code = 0 THEN "exit_0" ELSE "exit_1")
         /\ bridgeStarts' = IF code # 0 THEN StartFallbackBridge(bridgeStarts)
                            ELSE bridgeStarts
         /\ startResolved' = (startResolved \/ code # 0)
    /\ UNCHANGED brokerPc
    /\ UNCHANGED kOthers

\* the 5 second timer: the broker is assumed to have started
OnBrokerTimeout ==
    /\ brokerPc = "spawned"
    /\ Handled(brokerEvents, {"timeout"}) = 0
    /\ brokerEvents' = Append(brokerEvents, "timeout")
    /\ startResolved' = TRUE
    /\ UNCHANGED <<brokerPc, bridgeStarts>>
    /\ UNCHANGED kOthers

BrokerStartNext ==
    \/ BrokerScriptStart
    \/ OnBrokerStdout
    \/ OnBrokerError
    \/ OnBrokerExit
    \/ OnBrokerTimeout

(***************************************************************************)
(* MAPLEDemoLauncher: launch(), startPythonBridge(), cleanup()             *)
(***************************************************************************)
NoDemo ==
    [pc |-> "off", process |-> "none", pythonProcess |-> FALSE, mockBridges |-> 0,
     webSocketServer |-> FALSE, demoServer |-> FALSE, events |-> <<>>,
     resolved |-> FALSE]

DemoIdle == demo = NoDemo

\* the launcher as constructed
DemoInit == demo = [NoDemo EXCEPT !.pc = "init"]

\* the test of the 3 second timer: this.pythonProcess &&
\* this.pythonProcess.exitCode === null
StillRunning(pythonProcess, process) == pythonProcess /\ process = "running"

\* launch() step 1, startPythonBridge(): without the Python script the mock
\* bridge is started and the promise resolved; with it the process is
\* spawned and the handlers and the timer are set
StartPythonBridge ==
    /\ demo.pc = "init"
    /\ \E scriptExists \in BOOLEAN :
         demo' = IF scriptExists
                 THEN [demo EXCEPT !.pc = "bridge", !.process = "running",
                                   !.pythonProcess = TRUE]
                 ELSE [demo EXCEPT !.pc = "bridge", !.mockBridges = @ + 1,
                                   !.resolved = TRUE]
    /\ UNCHANGED dOthers

\* stdout.on('data'): resolves when the output includes 'Bridge server
\* running'
OnBridgeStdout ==
    /\ demo.process = "running"
    /\ Handled(demo.events, {"stdout_ready", "stdout_other"}) < MaxOutputs
    /\ \E output \in {"stdout_ready", "stdout_other"} :
         demo' = [demo EXCEPT !.events = Append(@, output),
                              !.resolved = (@ \/ output = ReadyOutput)]
    /\ UNCHANGED dOthers

\* on('error'): the mock bridge is started and the promise resolved
OnBridgeError ==
    /\ demo.process = "running"
    /\ Handled(demo.events, {"error"}) = 0
    /\ demo' = [demo EXCEPT !.events = Append(@, "error"),
                            !.process = "failed",
                            !.mockBridges = @ + 1,
                            !.resolved = TRUE]
    /\ UNCHANGED dOthers

\* the Python process exits; startPythonBridge sets no 'exit' handler
BridgeProcessExit ==
    /\ demo.process = "running"
    /\ demo' = [demo EXCEPT !.events = Append(@, "exit"), !.process = "exited"]
    /\ UNCHANGED dOthers

\* the 3 second timer set after the spawn
OnBridgeTimeout ==
    /\ demo.process # "none"
    /\ Handled(demo.events, {"timeout"}) = 0
    /\ demo' = [demo EXCEPT !.events = Append(@, "timeout"),
                            !.resolved = (@ \/ StillRunning(demo.pythonProcess,
                                                            demo.process))]
    /\ UNCHANGED dOthers

\* launch() step 2, once the promise of step 1 is resolved
StartWebSocketServer ==
    /\ demo.pc = "bridge"
    /\ demo.resolved
    /\ demo' = [demo EXCEPT !.pc = "websocket", !.webSocketServer = TRUE]
    /\ UNCHANGED dOthers

\* launch() steps 3 to 5
StartDemoWebServer ==
    /\ demo.pc = "websocket"
    /\ demo' = [demo EXCEPT !.pc = "launched", !.demoServer = TRUE]
    /\ UNCHANGED dOthers

\* cleanup(), called by the signal handlers launch() installs: the Python
\* process, the WebSocket server and the demo web server are stopped if
\* their fields are set
DemoCleanup ==
    /\ demo.pc = "launched"
    /\ demo' = [demo EXCEPT
                  !.pc = "cleaned",
                  !.process = IF demo.pythonProcess /\ @ = "running" THEN "killed" ELSE @,
                  !.pythonProcess = FALSE,
                  !.webSocketServer = FALSE,
                  !.demoServer = FALSE]
    /\ UNCHANGED dOthers

DemoNext ==
    \/ StartPythonBridge
    \/ OnBridgeStdout
    \/ OnBridgeError
    \/ BridgeProcessExit
    \/ OnBridgeTimeout
    \/ StartWebSocketServer
    \/ StartDemoWebServer
    \/ DemoCleanup

(***************************************************************************)
(* MAPLELauncher.startServices and waitForService                          *)
(***************************************************************************)
\* waitForService(url, serviceName, maxAttempts = 30)
MaxPollAttempts == 30

\* this.bridgePort of the broker script
BridgePort == 8000

\* the ports of the demo launcher: its mock bridge, WebSocket server and web
\* server
DemoPorts == {8000, 8080, 3000}

\* waitForService('http://localhost:8080/health', 'MAPLE Broker')
BrokerHealthPort == 8080

\* waitForService('http://localhost:3000/health', 'Demo Service')
DemoHealthPort == 3000

\* the broker script serves HTTP: its fallback bridge listens, or the
\* Python broker it spawned has reported that it runs and has not ended
BrokerServing ==
    \/ bridgeStarts >= 1
    \/ /\ Handled(brokerEvents, {"stdout_ready"}) >= 1
       /\ Handled(brokerEvents, {"error", "exit_0", "exit_1"}) = 0

\* the ports on which GET /health is answered with 200: the bridge port of
\* the broker script, and the mock bridge of the demo launcher (its web
\* server has no /health route, its WebSocket server answers no GET)
HealthPorts(brokerServing, demoSpawned) ==
    (IF brokerServing THEN {BridgePort} ELSE {})
        \cup (IF demoSpawned THEN {p \in DemoPorts : p = 8000} ELSE {})

\* one http.get of waitForService: resolved on status 200, rejected on any
\* other status, on a refused connection and on the 1 second timeout
HealthCheck(port, healthPorts) == port \in healthPorts

NoLauncher == [pc |-> "off", attempt |-> 1, demo |-> FALSE]

LauncherIdle == launcher = NoLauncher

LauncherInit == launcher = [NoLauncher EXCEPT !.pc = "init"]

\* startServices spawns node demo/start-maple-broker.js and begins to wait
SpawnBroker ==
    /\ launcher.pc = "init"
    /\ brokerPc = "off"
    /\ launcher' = [launcher EXCEPT !.pc = "waitBroker"]
    /\ brokerPc' = "init"
    /\ UNCHANGED <<brokerEvents, bridgeStarts, startResolved>>
    /\ UNCHANGED lOthers

\* one pass of the for loop of waitForService: the health check, and on a
\* rejection the throw of the last attempt or the 1 second wait; when the
\* broker is ready the demo service is spawned and waited for in turn
PollHealth ==
    /\ launcher.pc \in {"waitBroker", "waitDemo"}
    /\ launcher.attempt <= MaxPollAttempts
    /\ LET port == IF launcher.pc = "waitBroker" THEN BrokerHealthPort
                   ELSE DemoHealthPort
           ok == HealthCheck(port, HealthPorts(BrokerServing, launcher.demo))
       IN  launcher' =
               IF ok
               THEN IF launcher.pc = "waitBroker"
                    THEN [launcher EXCEPT !.pc = "waitDemo", !.attempt = 1,
                                          !.demo = TRUE]
                    ELSE [launcher EXCEPT !.pc = "ready"]
               ELSE IF launcher.attempt = MaxPollAttempts
               THEN [launcher EXCEPT !.pc = "failed"]
               ELSE [launcher EXCEPT !.attempt = @ + 1]
    /\ UNCHANGED kVars
    /\ UNCHANGED lOthers

LauncherNext == SpawnBroker \/ PollHealth

(***************************************************************************)
(* Specifications: one per component, the others idle                      *)
(***************************************************************************)
InitAgent == AgentInit /\ ResIdle /\ CoordIdle /\ TxIdle /\ WsIdle /\ FnIdle /\ BridgeIdle /\ StageIdle /\ BrokerStartIdle /\ DemoIdle /\ LauncherIdle

NextAgent == AgentNext

SpecAgent == InitAgent /\ [][NextAgent]_vars

InitRes == ResInit /\ AgentIdle /\ CoordIdle /\ TxIdle /\ WsIdle /\ FnIdle /\ BridgeIdle /\ StageIdle /\ BrokerStartIdle /\ DemoIdle /\ LauncherIdle

NextRes == ResNext

SpecRes == InitRes /\ [][NextRes]_vars

InitCoord == CoordInit /\ AgentIdle /\ ResIdle /\ TxIdle /\ WsIdle /\ FnIdle /\ BridgeIdle /\ StageIdle /\ BrokerStartIdle /\ DemoIdle /\ LauncherIdle

NextCoord == CoordNext

SpecCoord == InitCoord /\ [][NextCoord]_vars

InitTx == TxInit /\ AgentIdle /\ ResIdle /\ CoordIdle /\ WsIdle /\ FnIdle /\ BridgeIdle /\ StageIdle /\ BrokerStartIdle /\ DemoIdle /\ LauncherIdle

NextTx == TxNext

SpecTx == InitTx /\ [][NextTx]_vars

InitTxCancel == TxCancelInit /\ AgentIdle /\ ResIdle /\ CoordIdle /\ WsIdle /\ FnIdle /\ BridgeIdle /\ StageIdle /\ BrokerStartIdle /\ DemoIdle /\ LauncherIdle

NextTxCancel == TxCancelNext

SpecTxCancel == InitTxCancel /\ [][NextTxCancel]_vars

InitWs == WsInit /\ AgentIdle /\ ResIdle /\ CoordIdle /\ TxIdle /\ FnIdle /\ BridgeIdle /\ StageIdle /\ BrokerStartIdle /\ DemoIdle /\ LauncherIdle

NextWs == WsNext

SpecWs == InitWs /\ [][NextWs]_vars

InitFn == FnInit /\ AgentIdle /\ ResIdle /\ CoordIdle /\ TxIdle /\ WsIdle /\ BridgeIdle /\ StageIdle /\ BrokerStartIdle /\ DemoIdle /\ LauncherIdle

NextFn == FnNext

SpecFn == InitFn /\ [][NextFn]_vars

InitBridge == BridgeInit /\ FnIdle /\ AgentIdle /\ ResIdle /\ CoordIdle /\ TxIdle /\ WsIdle /\ StageIdle /\ BrokerStartIdle /\ DemoIdle /\ LauncherIdle

NextBridge == BridgeNext

SpecBridge == InitBridge /\ [][NextBridge]_vars

InitStage == StageInit /\ BridgeIdle /\ FnIdle /\ AgentIdle /\ ResIdle /\ CoordIdle /\ TxIdle /\ WsIdle /\ BrokerStartIdle /\ DemoIdle /\ LauncherIdle

NextStage == StageNext

SpecStage == InitStage /\ [][NextStage]_vars

InitBrokerStart == BrokerStartInit /\ StageIdle /\ BridgeIdle /\ FnIdle /\ AgentIdle /\ ResIdle /\ CoordIdle /\ TxIdle /\ WsIdle /\ DemoIdle /\ LauncherIdle

NextBrokerStart == BrokerStartNext

SpecBrokerStart == InitBrokerStart /\ [][NextBrokerStart]_vars

InitDemo == DemoInit /\ BrokerStartIdle /\ StageIdle /\ BridgeIdle /\ FnIdle /\ AgentIdle /\ ResIdle /\ CoordIdle /\ TxIdle /\ WsIdle /\ LauncherIdle

NextDemo == DemoNext

SpecDemo == InitDemo /\ [][NextDemo]_vars

\* the launcher starts, and a timer that is set fires
SpecDemoFair ==
    SpecDemo /\ WF_vars(StartPythonBridge) /\ WF_vars(OnBridgeTimeout)

\* startServices with the broker script it spawns
InitLauncher == LauncherInit /\ DemoIdle /\ BrokerStartIdle /\ StageIdle /\ BridgeIdle /\ FnIdle /\ AgentIdle /\ ResIdle /\ CoordIdle /\ TxIdle /\ WsIdle

NextLauncher == LauncherNext \/ BrokerStartNext

SpecLauncher == InitLauncher /\ [][NextLauncher]_vars

\* one of the three nodes is executed by the workflow
InitNodes == InitAgent \/ InitRes \/ InitCoord

NextNodes == AgentNext \/ ResNext \/ CoordNext

SpecNodes == InitNodes /\ [][NextNodes]_vars

(***************************************************************************)
(* Claims about the MAPLE Agent node                                       *)
(***************************************************************************)
\* C7: for each input item the operation is attempted at most
\* maxRetryAttempts + 1 times (at most maxRetryAttempts retries), and an
\* attempt that succeeds is the last attempt made for that item.
C7_RetriesBounded ==
    \A i \in 1 .. MaxItems :
        Len(aLog[i]) > 0 =>
            /\ Len(aLog[i]) <= aCfg.maxRetryAttempts + 1
            /\ \A k \in 1 .. Len(aLog[i]) - 1 : aLog[i][k] # "ok"

\* an item whose operation failed on every attempt but the last allowed one,
\* which succeeded
C7_Witness ==
    \E i \in 1 .. MaxItems :
        /\ aCfg.maxRetryAttempts >= 2
        /\ Len(aLog[i]) = aCfg.maxRetryAttempts + 1
        /\ aLog[i][Len(aLog[i])] = "ok"
        /\ aLog[i][1] = "broker"

\* C8: a failure caused by invalid caller input (invalid JSON in the agent or
\* task configuration, an unknown operation) is never retried: the item whose
\* attempt failed that way has exactly one attempt.
C8_ValidationNotRetried ==
    \A i \in 1 .. MaxItems :
        (\E k \in 1 .. Len(aLog[i]) : aLog[i][k] = "validation") => Len(aLog[i]) = 1

(***************************************************************************)
(* Claims about the Resource Manager node and the bridge                   *)
(***************************************************************************)
\* C1: in every reachable state, for every pool, the amounts held by the
\* granted allocations of the pool that are neither released nor expired
\* sum to at most the pool's capacity.
C1_Conservation == \A p \in Pools : Held(p) <= PoolCapacity

\* a step that is a releaseResources call for an allocation id that was
\* already released or expired before the call
SecondRelease ==
    /\ rLast'.seq # rLast.seq
    /\ rLast'.op = "releaseResources"
    /\ rLast'.id \in rReleased \cup rExpired

C9_BrokerErrorReported ==
    (rLast.op \in MockOnError /\ ~rLast.brokerOk) => rLast.outcome = "threw"

(***************************************************************************)
(* Claims about the Coordinator node and the bridge's workflow endpoints   *)
(***************************************************************************)
\* C2: whenever a transaction (a sequential coordination, a workflow
\* execution) ends with the outcome success / completed, every declared step
\* of it was executed and succeeded, and no compensation action ran for it.
C2_CompletedMeansAllSteps ==
    /\ \A i \in 1 .. MaxItems :
         (IsSequential(cCfg) /\ cRun[i].outcome = "success") =>
             /\ cRun[i].dispatched = [k \in 1 .. cCfg.nAgents |-> k]
             /\ cRun[i].results = [k \in 1 .. cCfg.nAgents |-> TRUE]
             /\ cRun[i].comp = <<>>
    /\ (wfLast.status = "completed" /\ wfLast.workflowId \in 1 .. Len(wfSteps)) =>
             /\ wfLast.totalSteps = wfSteps[wfLast.workflowId]
             /\ wfLast.successfulSteps = wfSteps[wfLast.workflowId]

\* C3: for every sequential coordination that failed after N of its tasks
\* completed, the compensation actions run are those of exactly these N
\* tasks, in the reverse of their completion order, once each.
C3_CompensationReversesCompleted ==
    \A i \in 1 .. MaxItems :
        (IsSequential(cCfg) /\ cRun[i].outcome = "failed") =>
            cRun[i].comp = Reverse(Completed(cRun[i]))

C4_CompensationFailureMeansFailed ==
    \A t \in TxIds :
        /\ (tx[t].state \in {"COMPENSATED", "FAILED"}) =>
               /\ Len(tx[t].compLog) = Len(CompensationPlan(tx[t].done))
               /\ \A k \in 1 .. Len(tx[t].compLog) :
                      /\ tx[t].compLog[k].action = CompensationPlan(tx[t].done)[k].action
                      /\ tx[t].compLog[k].step = CompensationPlan(tx[t].done)[k].step
        /\ (\E k \in 1 .. Len(tx[t].compLog) : ~tx[t].compLog[k].ok) =>
               /\ tx[t].state # "COMPENSATED"
               /\ tx[t].state \in TxTerminalStates => tx[t].state = "FAILED"
               /\ Len(tx[t].compLog) + Len(tx[t].queue) = Len(CompensationPlan(tx[t].done))

\* a transaction that failed after one completed step, whose first
\* compensation (the undo of step 1) failed and whose later ones ran
C4_Witness ==
    \E t \in TxIds :
        /\ tx[t].state = "FAILED"
        /\ tx[t].done = <<1>>
        /\ Len(tx[t].compLog) = 3
        /\ ~tx[t].compLog[1].ok
        /\ tx[t].compLog[2].ok
        /\ tx[t].compLog[3].ok

\* C5: a transaction's state changes only along INITIATED ->
\* RESOURCES_RESERVED -> EXECUTING -> COMPLETED or EXECUTING -> COMPENSATING
\* -> (COMPENSATED or FAILED); no state follows COMPLETED, COMPENSATED or
\* FAILED.
C5_StateMachine ==
    [][\A t \in TxIds :
           tx'[t].state # tx[t].state =>
               /\ <<tx[t].state, tx'[t].state>> \in TxEdges
               /\ tx[t].state \notin TxTerminalStates]_vars

\* one transaction has completed and another has unwound to COMPENSATED
C5_Witness ==
    \E t, u \in TxIds :
        /\ tx[t].state = "COMPLETED"
        /\ tx[u].state = "COMPENSATED"
        /\ Len(tx[u].done) = 2

(***************************************************************************)
(* Claims about fan-out                                                    *)
(***************************************************************************)
\* C11: when a step fans out to several participants, it returns only after
\* every dispatched task has completed, and its result holds exactly one
\* entry per declared agent, with summary.total = summary.successful +
\* summary.failed = number of agents, whatever the order of completion.
C11_FanOutBarrier ==
    \A i \in 1 .. MaxItems :
        (IsParallel(cCfg) /\ cRun[i].dispatched # <<>> /\ cRun[i].outcome # "none") =>
            /\ \A k \in 1 .. MaxAgents : cRun[i].tasks[k] # "inflight"
            /\ Len(cRun[i].results) = cCfg.nAgents
            /\ cRun[i].summary # <<>> =>
                   /\ cRun[i].summary[1] = cCfg.nAgents
                   /\ cRun[i].summary[1] = cRun[i].summary[2] + cRun[i].summary[3]

(***************************************************************************)
(* Claims about negotiation                                                *)
(***************************************************************************)
\* C12: a negotiate request with flexibility = strict that cannot be
\* satisfied (the broker call behind it fails) fails with an error; no
\* relaxed or alternative terms are returned for it.
C12_StrictFailsFast ==
    (rLast.op = "requestNegotiation" /\ rLast.flexibility = "strict" /\ ~rLast.brokerOk) =>
        /\ rLast.outcome = "threw"
        /\ ~rLast.relaxed

C14_UnmetDemandNotGranted ==
    (rLast.op = "allocateResources" /\ rLast.unmet) => rLast.outcome = "threw"

\* C15: every allocation granted to a transaction (here: to one execution
\* of the node) is released by the time it has finished, or its validUntil
\* has passed; no allocation stays granted for a finished transaction.
C15_ReleasedWhenFinished ==
    rPc \in {"done", "threw"} =>
        \A i \in 1 .. Len(rAllocs) :
            i > rBase => i \in rReleased \cup rExpired

(***************************************************************************)
(* Claims about failure signalling and connection                          *)
(***************************************************************************)
\* C16: no operation signals failure by throwing: no operation method and
\* no execute() of a node ends with a thrown error.
C16_NoThrow ==
    /\ rLast.outcome # "threw"
    /\ aPc # "threw"
    /\ rPc # "threw"
    /\ cPc # "threw"

\* C17: if the broker connection cannot be established, the run aborts with
\* a connection failure before any resource is reserved and before any
\* step or operation is dispatched.
C17_ConnectFailureAbortsFirst ==
    /\ (aPc = "loop" => aConnected)
    /\ (aPc = "threw" /\ ~aConnected) =>
           /\ returnData = <<>>
           /\ \A i \in 1 .. MaxItems : aLog[i] = <<>>
    /\ (rPc = "loop" => rConnected)
    /\ (rPc = "threw" /\ ~rConnected) =>
           /\ rOut = <<>>
           /\ rLast = NoCall
           /\ Len(rAllocs) = rBase
    /\ (cPc = "loop" => cConnected)
    /\ (cPc = "threw" /\ ~cConnected) =>
           /\ cOut = <<>>
           /\ cRun = [i \in 1 .. MaxItems |-> NoRun]

\* a second execution of the Resource Manager whose connect failed, after a
\* first one that was granted an allocation
C17_Witness ==
    /\ rPc = "threw"
    /\ ~rConnected
    /\ rRuns = 2
    /\ Len(rAllocs) > 0

(***************************************************************************)
(* Claims about retries of the Agent node                                  *)
(***************************************************************************)
\* C18: when an action (the operation on one input item) fails and is
\* retried, only that action and the ones after it are executed again; an
\* action that already completed successfully in this run is never executed
\* a second time.
C18_RetryOnlyFailedOnward ==
    [][/\ aItem' >= aItem
       /\ \A i \in 1 .. MaxItems :
              aLog'[i] # aLog[i] =>
                  /\ i = aItem
                  /\ \A k \in 1 .. Len(aLog[i]) : aLog[i][k] # "ok"]_vars

\* the first item succeeded, the second failed once and was tried again
C18_Witness ==
    /\ aLog[1] = <<"ok">>
    /\ Len(aLog[2]) >= 2
    /\ aLog[2][1] = "broker"

\* C19: when the retries of an operation are exhausted, the failure that
\* comes out (the failure entry pushed, or the error thrown) carries the
\* error of the last attempt made, not the error of an earlier attempt.
C19_LastErrorReported ==
    /\ \A k \in 1 .. Len(returnData) :
           ~returnData[k].success =>
               /\ aErrs[returnData[k].item] # <<>>
               /\ returnData[k].error =
                      aErrs[returnData[k].item][Len(aErrs[returnData[k].item])]
    /\ (aPc = "threw" /\ aConnected) =>
           /\ aErrs[aItem] # <<>>
           /\ aError = aErrs[aItem][Len(aErrs[aItem])]

\* an item whose attempts were exhausted with two different errors, first a
\* timeout and last an unavailable broker
C19_Witness ==
    \E k \in 1 .. Len(returnData) :
        /\ ~returnData[k].success
        /\ returnData[k].attempts >= 2
        /\ aErrs[returnData[k].item][1] = "timeout"
        /\ returnData[k].error = "unavailable"

(***************************************************************************)
(* Claims about the WebSocket server of the demo                           *)
(***************************************************************************)
\* C20: a connection attempt that presents an API key other than the
\* configured valid key is rejected; a connection is established only with
\* the valid key.
C20_OnlyValidKeyConnects ==
    /\ \A c \in Clients :
           wsConns[c] \notin {Closed, Off} => wsConns[c] = AuthHeader(ValidApiKey)
    /\ (wsLast.client # 0 /\ wsLast.header # AuthHeader(ValidApiKey)) => ~wsLast.accepted

(***************************************************************************)
(* Claims about the Coordinator's error handling and strategies            *)
(***************************************************************************)
\* the k-th task dispatched for item i failed
TaskFailed(i, k) == k <= Len(cRun[i].results) /\ ~cRun[i].results[k]

\* C21: with errorHandling = 'continue', when one agent's task fails in a
\* sequential orchestration, every remaining declared agent's task is still
\* dispatched.
C21_ContinueDispatchesAll ==
    \A i \in 1 .. MaxItems :
        (/\ IsSequential(cCfg)
         /\ cCfg.policy.errorHandling = "continue"
         /\ cRun[i].outcome # "none"
         /\ \E k \in 1 .. cCfg.nAgents : TaskFailed(i, k)) =>
            \A a \in 1 .. cCfg.nAgents :
                \E k \in 1 .. Len(cRun[i].dispatched) : cRun[i].dispatched[k] = a

\* C22: with errorHandling = 'retry', an agent task that fails is dispatched
\* again, up to maxRetries further times, before the orchestration is
\* reported as failed.
C22_RetryBeforeFailure ==
    \A i \in 1 .. MaxItems :
        (/\ IsSequential(cCfg)
         /\ cCfg.policy.errorHandling = "retry"
         /\ cRun[i].outcome = "failed") =>
            \A k \in 1 .. cCfg.nAgents :
                TaskFailed(i, k) =>
                    Cardinality({j \in 1 .. Len(cRun[i].dispatched) :
                                    cRun[i].dispatched[j] = cRun[i].dispatched[k]})
                        = 1 + cCfg.policy.maxRetries

\* C23: for every coordination strategy the node offers (sequential,
\* parallel, pipeline, dynamic), orchestrateAgents selects an execution mode
\* and dispatches the declared agents' tasks; none ends in an 'Unknown
\* coordination strategy' failure.
C23_EveryStrategyDispatches ==
    \A i \in 1 .. MaxItems :
        (/\ cCfg.operation = "orchestrateAgents"
         /\ cCfg.strategy \in CoordinationStrategies
         /\ \A k \in 1 .. cCfg.nAgents : cCfg.jsonValid[k]
         /\ cRun[i].outcome # "none") =>
            cRun[i].dispatched # <<>>

(***************************************************************************)
(* Claims about the client options                                         *)
(***************************************************************************)
\* C24: the client created by a node has automatic reconnection enabled if
\* and only if the credential's enableReconnect setting is true.
C24_ReconnectFollowsCredential ==
    fnRet.fn = "newClient" =>
        (fnRet.options.reconnect <=> fnCall.credentials.enableReconnect)

(***************************************************************************)
(* Claims about the negotiated terms                                       *)
(***************************************************************************)
\* the fixed preference order of the trade-offs
PreferenceOrder == <<"wait_time", "duration", "cost", "performance">>

PreferenceRank(t) == CHOOSE k \in 1 .. Len(PreferenceOrder) : PreferenceOrder[k] = t

\* C25: when a request cannot be satisfied in full, negotiate tries the
\* acceptable trade-offs in the order wait_time, duration, cost, performance
\* and returns the first relaxation that is feasible: the terms returned
\* relax acceptable trade-offs only, and never a later trade-off when an
\* earlier acceptable one is feasible (as one that the terms relax is).
C25_FirstAcceptableTradeoff ==
    fnRet.fn = "requestNegotiation" =>
        /\ fnRet.relaxed \subseteq fnCall.acceptableTradeoffs
        /\ \A t, u \in fnRet.relaxed :
               u \in fnCall.acceptableTradeoffs => PreferenceRank(u) >= PreferenceRank(t)

(***************************************************************************)
(* Claims about competing allocation requests                              *)
(***************************************************************************)
\* C26: among allocation requests competing for the same pool, the request
\* with the higher priority is granted first, and among requests of equal
\* priority the one submitted earlier is granted first.
C26_PriorityThenFifo ==
    \A k \in 1 .. Len(bqGranted) :
        /\ bqGranted[k].passed = {}
        /\ bqGranted[k].overtook = {}

(***************************************************************************)
(* Claims about the order of forward steps and compensations               *)
(***************************************************************************)
\* C27: once the first compensation of a transaction has run, no forward
\* step of that transaction executes again: its list of completed steps
\* never changes afterwards.
C27_NoForwardAfterCompensation ==
    [][\A t \in TxIds : tx[t].compLog # <<>> => tx'[t].done = tx[t].done]_vars

\* a transaction that completed one step, failed in the second and was
\* unwound to the end
C27_Witness ==
    \E t \in TxIds :
        /\ tx[t].state = "COMPENSATED"
        /\ Len(tx[t].done) = 1
        /\ Len(tx[t].compLog) = 1 + Len(TxCompensation)

(***************************************************************************)
(* Claims about the run of a stage                                         *)
(***************************************************************************)
StageRank(state) ==
    CASE state = "PENDING" -> 1
      [] state = "CHECKING_PRECONDITIONS" -> 2
      [] state = "EXECUTING" -> 3
      [] state = "CHECKING_POSTCONDITIONS" -> 4
      [] state \in StageTerminalStates -> 5

\* C28: in every stage run no action executes before all preconditions have
\* passed, postconditions are checked only after all actions have succeeded,
\* and the state of the run only moves forward along PENDING ->
\* CHECKING_PRECONDITIONS -> EXECUTING -> CHECKING_POSTCONDITIONS ->
\* SUCCEEDED or FAILED: each move goes to the next state of the chain or
\* ends the run in FAILED, and SUCCEEDED is entered only from
\* CHECKING_POSTCONDITIONS.
C28_StageOrder ==
    /\ [](/\ (stage.done > 0 \/ stage.retries > 0 \/ stage.state = "EXECUTING")
                => stage.passed = Len(StagePreconditions)
          /\ (stage.held > 0 \/ stage.state = "CHECKING_POSTCONDITIONS"
                \/ stage.state = "SUCCEEDED")
                => /\ stage.done = Len(StageActions)
                   /\ stage.passed = Len(StagePreconditions))
    /\ [][(stage'.run = stage.run /\ stage'.state # stage.state)
            => /\ stage.state \notin StageTerminalStates
               /\ \/ StageRank(stage'.state) = StageRank(stage.state) + 1
                  \/ stage'.state = "FAILED"
               /\ stage'.state = "SUCCEEDED"
                    => stage.state = "CHECKING_POSTCONDITIONS"]_vars

\* the second run of a stage succeeded after an action was retried
C28_Witness ==
    /\ stage.state = "SUCCEEDED"
    /\ stage.run = 2
    /\ stage.retries > 0
    /\ stage.held = Len(StagePostconditions)

(***************************************************************************)
(* Claims about the Result type                                            *)
(***************************************************************************)
\* C29: for every value v, error e and default d: Ok(v) is Ok and not Err,
\* carries v, and unwrapOr(d) returns v; Err(e) is Err and not Ok, carries
\* e, and unwrapOr(d) returns d.
C29_ResultContract ==
    /\ fnRet.fn = "Ok"
         => /\ fnRet.result.isOk
            /\ ~fnRet.result.isErr
            /\ fnRet.result.value = fnCall.value
            /\ fnRet.unwrapped = fnCall.value
    /\ fnRet.fn = "Err"
         => /\ fnRet.result.isErr
            /\ ~fnRet.result.isOk
            /\ fnRet.result.error = fnCall.error
            /\ fnRet.unwrapped = fnCall.default

\* an Ok result of the empty string was read with a default that differs
\* from it
C29_Witness ==
    /\ fnRet.fn = "Ok"
    /\ fnCall.value = ""
    /\ fnCall.default = "default"
    /\ fnRet.unwrapped = ""

(***************************************************************************)
(* Claims about the allocation strategy                                    *)
(***************************************************************************)
\* the pools, by their place in PoolOrder, whose free capacity covers the
\* demand
Satisfying(free, demand) ==
    {k \in 1 .. Len(PoolOrder) : free[PoolOrder[k]] >= demand}

FirstFitPool(free, demand) ==
    PoolOrder[CHOOSE k \in Satisfying(free, demand) :
                  \A j \in Satisfying(free, demand) : k <= j]

BestFitPool(free, demand) ==
    PoolOrder[CHOOSE k \in Satisfying(free, demand) :
                  \A j \in Satisfying(free, demand) :
                      \/ free[PoolOrder[k]] < free[PoolOrder[j]]
                      \/ free[PoolOrder[k]] = free[PoolOrder[j]] /\ k <= j]

\* C30: the allocation strategy chosen for a request determines the pool it
\* is served from: with best_fit the smallest pool that satisfies the
\* request, with first_fit the first pool with sufficient free capacity.
C30_StrategyDeterminesPool ==
    (/\ fnRet.fn = "allocateResources"
     /\ ~fnRet.ret.threw
     /\ Satisfying(fnCall.free, fnCall.computeCores) # {})
        => /\ fnCall.strategy = "best_fit"
                => fnRet.ret.allocation.pool
                       = BestFitPool(fnCall.free, fnCall.computeCores)
           /\ fnCall.strategy = "first_fit"
                => fnRet.ret.allocation.pool
                       = FirstFitPool(fnCall.free, fnCall.computeCores)

C32_OneOutputPerItem ==
    aPc = "done" =>
        /\ Len(returnData) = aCfg.nItems
        /\ \A k \in 1 .. Len(returnData) : returnData[k].item = k

(***************************************************************************)
(* Claims about the client connection of a node                            *)
(***************************************************************************)
\* C33: whenever execute of a node has connected its client, the client is
\* disconnected when execute has returned or thrown.
C33_DisconnectedAtExit ==
    /\ aPc \in {"done", "threw"} => ~aConnected
    /\ rPc \in {"done", "threw"} => ~rConnected
    /\ cPc \in {"done", "threw"} => ~cConnected

(***************************************************************************)
(* Claims about the start of the broker script                             *)
(***************************************************************************)
\* C34: during one start of the broker script the fallback HTTP bridge is
\* started at most once, for every order and combination of the 'error'
\* event, the non-zero 'exit' event, the stdout output and the timeout.
C34_BridgeStartedOnce == bridgeStarts <= 1

(***************************************************************************)
(* Claims about the demo launcher                                          *)
(***************************************************************************)
\* C35: startPythonBridge always completes: whatever the spawned Python
\* process does, the promise it returns is eventually resolved.
C35_BridgeStartCompletes == <>(demo.resolved)

\* C36: after cleanup() has returned, every server or process launch()
\* started has been stopped: the Python bridge process or the mock bridge,
\* the WebSocket server and the demo web server.
C36_CleanupStopsAll ==
    demo.pc = "cleaned" =>
        /\ demo.process # "running"
        /\ demo.mockBridges = 0
        /\ ~demo.webSocketServer
        /\ ~demo.demoServer

(***************************************************************************)
(* Claims about the launcher                                               *)
(***************************************************************************)
\* C37: if the services startServices spawns start and keep running, each
\* health check it polls eventually answers 200 and startServices returns
\* with the services ready, instead of failing after 30 polling attempts:
\* it does not fail while the broker it spawned serves its health route.
C37_ReadyWhenServicesRun ==
    (launcher.pc = "failed" /\ brokerPc = "bridge") => ~BrokerServing

(***************************************************************************)
(* Claims about rollback, the test suite and the retry wait                *)
(***************************************************************************)
\* C38: when a production launch fails after the services were deployed,
\* rollback stops every service this launch started, whichever way it was
\* started.
C38_RollbackStopsAll ==
    fnRet.fn = "rollback" => fnRet.running = {}

\* C39: runAllTests returns true only if every test recorded during the run
\* passed.
C39_TrueOnlyIfAllPassed ==
    (fnRet.fn = "runAllTests" /\ fnRet.returned)
        => \A k \in DOMAIN fnCall.testResults : fnCall.testResults[k]

\* C40: the wait before the k-th retry is min(1000 * 2^(k-1), 5000)
\* milliseconds: it never decreases from one retry to the next, never
\* exceeds 5000, and no wait follows the final failed attempt (there is one
\* wait less than there are attempts).
C40_BackoffWaits ==
    fnRet.fn = "retryLoop" =>
        LET waits == fnRet.run.waits
        IN  /\ \A k \in 1 .. Len(waits) :
                   /\ waits[k] = (IF 1000 * 2 ^ (k - 1) <= 5000
                                  THEN 1000 * 2 ^ (k - 1) ELSE 5000)
                   /\ waits[k] <= 5000
                   /\ k > 1 => waits[k - 1] <= waits[k]
            /\ fnRet.run.attempts > 0 => Len(waits) = fnRet.run.attempts - 1
            /\ fnRet.run.attempts = 0 => waits = <<>>

\* an item failed five times: the fourth wait is the first one capped
C40_Witness ==
    /\ fnRet.fn = "retryLoop"
    /\ fnRet.run.attempts = 5
    /\ fnRet.run.waits = <<1000, 2000, 4000, 5000>>

====
